---- MODULE Spec2Model ----
(***************************************************************************)
(* A model of the synckit core: vector clocks, LWW documents, deltas, the  *)
(* OR-Set, fractional indexes and the YATA text CRDT.  Every component is  *)
(* a value with its own operations; each specification below drives one    *)
(* component and leaves the variables of the others alone.                 *)
(***************************************************************************)
EXTENDS Integers, Sequences, FiniteSets, TLC

VARIABLES
    clockA, clockB, vcOp,            \* two VectorClock values and the last call on them
    docX, docY, repA, repB, docOp,   \* two Document inputs, two working replicas, last call
    sets, orOp,                      \* the ORSet of each replica and what the calls observed
    fiLeft, fiRight, fiOut,          \* two FractionalIndex keys and the outcome of between
    texts, textOp                    \* the Text of each replica and what the calls observed

vcVars  == <<clockA, clockB, vcOp>>
docVars == <<docX, docY, repA, repB, docOp>>
orVars  == <<sets, orOp>>
fiVars  == <<fiLeft, fiRight, fiOut>>
txtVars == <<texts, textOp>>
vars    == <<vcVars, docVars, orVars, fiVars, txtVars>>

\* What a specification that drives one component leaves alone.
notVc  == <<docVars, orVars, fiVars, txtVars>>
notDoc == <<vcVars, orVars, fiVars, txtVars>>
notOr  == <<vcVars, docVars, fiVars, txtVars>>
notFi  == <<vcVars, docVars, orVars, txtVars>>
notTxt == <<vcVars, docVars, orVars, fiVars>>

(***************************************************************************)
(* Bounds of the model.                                                    *)
(***************************************************************************)
MaxClock == 2        \* largest vector clock entry
MaxTs    == 2        \* largest Timestamp.clock of a field
MaxVer   == 1        \* largest entry of a document version
MaxSeq   == 2        \* adds per OR-Set replica
MaxWall  == 1        \* largest wall-clock reading of an OR-Set add
MaxKeyLen == 2       \* longest FractionalIndex key between is first called on
MaxNarrow == 2       \* times a result of between is taken as the next right key
MaxChars == 2        \* largest Text clock
MaxLen   == 2        \* longest text of one insert, longest range of one delete
MaxInserts == 100    \* between calls of test_insert_between_many_times
MaxTagWall == 2      \* largest wall-clock reading where tags of one element are issued
MaxTyped == 4        \* largest Text clock of the replica edited alone
MaxOps   == 2        \* longest list of set_field operations
MaxWrites == 2       \* local writes of one replica before its writes stop

\* ClientID / replica ids are strings; Rust compares them lexicographically.
Clients == {"c1", "c2"}
\* "c10" lies between "c1" and "c2": the order is by bytes, not by number.
ClientIds == Clients \cup {"c10"}
ClientRank == [c \in ClientIds |-> IF c = "c1" THEN 1 ELSE IF c = "c10" THEN 2 ELSE 3]
ClientLess(a, b) == ClientRank[a] < ClientRank[b]

\* Generic HashMap helpers: a map is a function whose domain is its key set.
EmptyMap == [k \in {} |-> 0]
Put(m, k, v) == [x \in (DOMAIN m) \cup {k} |-> IF x = k THEN v ELSE m[x]]
Max(a, b) == IF a >= b THEN a ELSE b

(***************************************************************************)
(* VectorClock  (sync/vector_clock.rs)                                     *)
(***************************************************************************)
VCNew == EmptyMap

VCGet(c, r) == IF r \in DOMAIN c THEN c[r] ELSE 0

\* The entry restarted at 1 instead of incremented.
VCTickReset(c, r) == Put(c, r, 1)

VCTick(c, r) == Put(c, r, VCGet(c, r) + 1)

VCUpdate(c, r, v) == Put(c, r, v)

\* The other clock's entry added to the own one.
VCMergeEntryAdd(c, k, v) == Put(c, k, VCGet(c, k) + v)

\* The entry taken from the other clock without the max.
VCMergeEntryOverwrite(c, k, v) == Put(c, k, v)

\* Loop body of merge: entry(client).or_insert(0), then max with the other's value.
VCMergeEntry(c, k, v) == Put(c, k, Max(VCGet(c, k), v))

RECURSIVE VCMergeKeys(_, _, _)
\* The `for (client_id, &other_clock) in &other.clocks` loop, one key at a time.
VCMergeKeys(c, other, keys) ==
    IF keys = {} THEN c
    ELSE LET k == CHOOSE x \in keys : TRUE
         IN VCMergeKeys(VCMergeEntry(c, k, other[k]), other, keys \ {k})

VCMerge(c, other) == VCMergeKeys(c, other, DOMAIN other)

\* The two flags compare and is_concurrent compute over the union of the key sets.
VCFlags(c, other) ==
    LET all == (DOMAIN c) \cup (DOMAIN other)
    IN [less    |-> \E k \in all : VCGet(c, k) < VCGet(other, k),
        greater |-> \E k \in all : VCGet(c, k) > VCGet(other, k)]

\* compare over the keys of self alone.
VCCompareOwnKeys(c, other) ==
    LET less    == \E k \in DOMAIN c : VCGet(c, k) < VCGet(other, k)
        greater == \E k \in DOMAIN c : VCGet(c, k) > VCGet(other, k)
    IN IF less /\ ~greater THEN "Less"
       ELSE IF greater /\ ~less THEN "Greater"
       ELSE "Equal"

VCCompare(c, other) ==
    LET f == VCFlags(c, other)
    IN IF f.less /\ ~f.greater THEN "Less"
       ELSE IF ~f.less /\ f.greater THEN "Greater"
       ELSE IF ~f.less /\ ~f.greater THEN "Equal"
       ELSE "Equal"

VCIsConcurrent(c, other) ==
    LET f == VCFlags(c, other) IN f.less /\ f.greater

VCHappenedBefore(c, other) == VCCompare(c, other) = "Less"

(***************************************************************************)
(* Timestamp  (sync/mod.rs)                                                *)
(***************************************************************************)
NewTimestamp(clock, client_id) == [clock |-> clock, client_id |-> client_id]

\* compare_lww that looks at the clock alone.
CompareLwwClockOnly(a, b) ==
    IF a.clock < b.clock THEN "Less"
    ELSE IF a.clock > b.clock THEN "Greater"
    ELSE "Equal"

\* Timestamp::compare_lww: clock first, then client id.
CompareLww(a, b) ==
    IF a.clock < b.clock THEN "Less"
    ELSE IF a.clock > b.clock THEN "Greater"
    ELSE IF ClientLess(a.client_id, b.client_id) THEN "Less"
    ELSE IF ClientLess(b.client_id, a.client_id) THEN "Greater"
    ELSE "Equal"

IsNewerThanOrEqual(a, b) == CompareLww(a, b) # "Less"

IsNewerThan(a, b) == CompareLww(a, b) = "Greater"

\* The derived Ord of Timestamp (#[derive(PartialOrd, Ord)]): fields in
\* declaration order, clock and then client_id.
TsCmp(a, b) ==
    IF a.clock # b.clock
    THEN (IF a.clock < b.clock THEN "Less" ELSE "Greater")
    ELSE IF a.client_id = b.client_id THEN "Equal"
    ELSE IF ClientLess(a.client_id, b.client_id) THEN "Less" ELSE "Greater"

(***************************************************************************)
(* Document and Field  (document.rs)                                       *)
(***************************************************************************)
NewField(value, ts) == [value |-> value, timestamp |-> ts]

DocumentNew(id) == [id |-> id, fields |-> EmptyMap, version |-> VCNew]

\* set_field that keeps a stored field carrying a greater timestamp.
SetFieldIfNewer(doc, path, value, clock, client_id) ==
    IF /\ path \in DOMAIN doc.fields
       /\ CompareLww(doc.fields[path].timestamp, NewTimestamp(clock, client_id)) = "Greater"
    THEN doc
    ELSE [doc EXCEPT !.fields = Put(@, path, NewField(value, NewTimestamp(clock, client_id)))]

SetField(doc, path, value, clock, client_id) ==
    [doc EXCEPT !.fields = Put(@, path, NewField(value, NewTimestamp(clock, client_id)))]

\* get_field: None when the path is absent.
GetField(doc, path) ==
    IF path \in DOMAIN doc.fields THEN <<doc.fields[path].value>> ELSE <<>>

\* merge_field with the remote field also winning a tie.
MergeFieldRemoteOnTie(doc, path, remote_field) ==
    IF path \in DOMAIN doc.fields
    THEN IF IsNewerThanOrEqual(remote_field.timestamp, doc.fields[path].timestamp)
         THEN [doc |-> [doc EXCEPT !.fields = Put(@, path, remote_field)], updated |-> TRUE]
         ELSE [doc |-> doc, updated |-> FALSE]
    ELSE [doc |-> [doc EXCEPT !.fields = Put(@, path, remote_field)], updated |-> TRUE]

\* merge_field: returns the document afterwards and the "updated" flag.
MergeField(doc, path, remote_field) ==
    IF path \in DOMAIN doc.fields
    THEN IF IsNewerThan(remote_field.timestamp, doc.fields[path].timestamp)
         THEN [doc |-> [doc EXCEPT !.fields = Put(@, path, remote_field)], updated |-> TRUE]
         ELSE [doc |-> doc, updated |-> FALSE]
    ELSE [doc |-> [doc EXCEPT !.fields = Put(@, path, remote_field)], updated |-> TRUE]

RECURSIVE MergeFields(_, _, _, _)
\* The `for (field_path, remote_field) in &remote.fields` loop of merge.
MergeFields(doc, remote, paths, count) ==
    IF paths = {} THEN [doc |-> doc, count |-> count]
    ELSE LET p == CHOOSE x \in paths : TRUE
             r == MergeField(doc, p, remote.fields[p])
         IN MergeFields(r.doc, remote, paths \ {p},
                        IF r.updated THEN count + 1 ELSE count)

\* Document::merge: every remote field through merge_field, then the versions.
Merge(doc, remote) ==
    LET m == MergeFields(doc, remote, DOMAIN remote.fields, 0)
    IN [doc   |-> [m.doc EXCEPT !.version = VCMerge(@, remote.version)],
        count |-> m.count]

(***************************************************************************)
(* Delta  (sync/delta.rs)                                                  *)
(***************************************************************************)
DeltaNew(document_id, fields, version) ==
    [document_id |-> document_id, fields |-> fields, version |-> version]

\* compute_delta: the fields of `new` that are absent from `old` or differ from
\* old's (value or timestamp); paths only `old` holds are not recorded.
ComputeDelta(old, new) ==
    LET changed == {p \in DOMAIN new.fields :
                       \/ p \notin DOMAIN old.fields
                       \/ old.fields[p] # new.fields[p]}
    IN DeltaNew(new.id, [p \in changed |-> new.fields[p]], new.version)

\* the loop body of apply_delta taking the delta's field on equal timestamps
ApplyDeltaFieldOnTie(doc, path, delta_field) ==
    IF path \in DOMAIN doc.fields
    THEN IF TsCmp(delta_field.timestamp, doc.fields[path].timestamp) # "Less"
         THEN [doc EXCEPT !.fields = Put(@, path, delta_field)]
         ELSE doc
    ELSE [doc EXCEPT !.fields = Put(@, path, delta_field)]

ApplyDeltaField(doc, path, delta_field) ==
    IF path \in DOMAIN doc.fields
    THEN LET local_field == doc.fields[path]
             c == TsCmp(delta_field.timestamp, local_field.timestamp)
         IN IF c = "Greater"
            THEN [doc EXCEPT !.fields = Put(@, path, delta_field)]
            ELSE IF c = "Equal"
            THEN IF ClientLess(local_field.timestamp.client_id,
                               delta_field.timestamp.client_id)
                 THEN [doc EXCEPT !.fields = Put(@, path, delta_field)]
                 ELSE doc
            ELSE doc
    ELSE [doc EXCEPT !.fields = Put(@, path, delta_field)]

RECURSIVE ApplyDeltaFields(_, _, _)
ApplyDeltaFields(doc, delta, paths) ==
    IF paths = {} THEN doc
    ELSE LET p == CHOOSE x \in paths : TRUE
         IN ApplyDeltaFields(ApplyDeltaField(doc, p, delta.fields[p]), delta, paths \ {p})

\* apply_delta: assert_eq! on the ids panics; otherwise every field by LWW and
\* the version merged.
ApplyDelta(doc, delta) ==
    IF doc.id # delta.document_id
    THEN [panicked |-> TRUE, doc |-> doc]
    ELSE [panicked |-> FALSE,
          doc |-> [ApplyDeltaFields(doc, delta, DOMAIN delta.fields)
                       EXCEPT !.version = VCMerge(@, delta.version)]]

\* One round of the loop of merge_deltas over delta2.fields.
MergeDeltasField(merged_fields, path, field2) ==
    IF path \in DOMAIN merged_fields
    THEN LET field1 == merged_fields[path]
             c == TsCmp(field2.timestamp, field1.timestamp)
         IN IF c = "Greater"
            THEN Put(merged_fields, path, field2)
            ELSE IF c = "Equal"
            THEN IF ClientLess(field1.timestamp.client_id, field2.timestamp.client_id)
                 THEN Put(merged_fields, path, field2)
                 ELSE merged_fields
            ELSE merged_fields
    ELSE Put(merged_fields, path, field2)

RECURSIVE MergeDeltasFields(_, _, _)
MergeDeltasFields(merged_fields, delta2, paths) ==
    IF paths = {} THEN merged_fields
    ELSE LET p == CHOOSE x \in paths : TRUE
         IN MergeDeltasFields(MergeDeltasField(merged_fields, p, delta2.fields[p]),
                              delta2, paths \ {p})

\* merge_deltas that keeps the field of delta1 on every shared path
MergeDeltasKeepFirst(delta1, delta2) ==
    IF delta1.document_id # delta2.document_id
    THEN [panicked |-> TRUE, delta |-> delta1]
    ELSE [panicked |-> FALSE,
          delta |-> DeltaNew(delta1.document_id,
                             [q \in DOMAIN delta1.fields \cup DOMAIN delta2.fields |->
                                 IF q \in DOMAIN delta1.fields THEN delta1.fields[q]
                                                               ELSE delta2.fields[q]],
                             VCMerge(delta1.version, delta2.version))]

\* merge_deltas: assert_eq! on the ids panics; otherwise the fields of delta1
\* with those of delta2 merged in by LWW, and the versions merged.
MergeDeltas(delta1, delta2) ==
    IF delta1.document_id # delta2.document_id
    THEN [panicked |-> TRUE, delta |-> delta1]
    ELSE [panicked |-> FALSE,
          delta |-> DeltaNew(delta1.document_id,
                             MergeDeltasFields(delta1.fields, delta2, DOMAIN delta2.fields),
                             VCMerge(delta1.version, delta2.version))]

(***************************************************************************)
(* DocumentDelta  (protocol/delta.rs)                                      *)
(***************************************************************************)
\* Result<T>: Ok(value) or Err(error kind).
Ok(v)  == [kind |-> "Ok", value |-> v]
Err(e) == [kind |-> "Err", error |-> e]

FieldChangeNew(path, field, is_delete) ==
    [path |-> path, field |-> field, is_delete |-> is_delete]

\* changes holds at most one change per path, so it is kept as a map from the
\* path to its change; the order of the Vec has no effect on apply_to.
DocumentDeltaNew(document_id, changes, base_version, new_version) ==
    [document_id |-> document_id, changes |-> changes,
     base_version |-> base_version, new_version |-> new_version]

\* DocumentDelta::compute: an error when the ids differ; otherwise the fields
\* of `to` that are new or differ in value or timestamp, and a delete change
\* for every path only `from` holds.
DocumentDeltaCompute(from, to) ==
    IF from.id # to.id
    THEN Err("InvalidOperation")
    ELSE LET modified == {p \in DOMAIN to.fields :
                             \/ p \notin DOMAIN from.fields
                             \/ from.fields[p].value # to.fields[p].value
                             \/ from.fields[p].timestamp # to.fields[p].timestamp}
             removed  == DOMAIN from.fields \ DOMAIN to.fields
         IN Ok(DocumentDeltaNew(from.id,
                   [p \in modified \cup removed |->
                       IF p \in modified
                       THEN FieldChangeNew(p, to.fields[p], FALSE)
                       ELSE FieldChangeNew(p, from.fields[p], TRUE)],
                   from.version, to.version))

\* Document::delete_field, as apply needs it: the entry at the path is removed.
DeleteField(doc, path) ==
    [doc EXCEPT !.fields = [p \in DOMAIN @ \ {path} |-> @[p]]]

ApplyChange(document, change) ==
    IF ~change.is_delete
    THEN SetField(document, change.path, change.field.value,
                  change.field.timestamp.clock, change.field.timestamp.client_id)
    ELSE DeleteField(document, change.path)

RECURSIVE ApplyChanges(_, _, _)
ApplyChanges(document, delta, paths) ==
    IF paths = {} THEN document
    ELSE LET p == CHOOSE x \in paths : TRUE
         IN ApplyChanges(ApplyChange(document, delta.changes[p]), delta, paths \ {p})

\* DocumentDelta::apply_to: an error and no change when the ids differ;
\* otherwise every change is written with set_field or delete_field.  The
\* document's version is not touched.
ApplyTo(delta, document) ==
    IF document.id # delta.document_id
    THEN [result |-> Err("InvalidOperation"), doc |-> document]
    ELSE [result |-> Ok("unit"),
          doc |-> ApplyChanges(document, delta, DOMAIN delta.changes)]

(***************************************************************************)
(* ORSet  (crdt/or_set.rs)                                                 *)
(***************************************************************************)
Elements == {"apple", "banana"}

UniqueTag(replica_id, timestamp, sequence) ==
    [replica_id |-> replica_id, timestamp |-> timestamp, sequence |-> sequence]

ORSetNew(replica_id) ==
    [replica_id   |-> replica_id,
     elements     |-> [e \in {} |-> {}],
     removed_tags |-> {},
     sequence     |-> 0]

\* self.elements.get(element), an absent entry read as no tags
ORSetTags(set, element) ==
    IF element \in DOMAIN set.elements THEN set.elements[element] ELSE {}

\* add that leaves the sequence counter as it found it.
ORSetAddKeepSequence(set, element, now) ==
    LET tag == UniqueTag(set.replica_id, now, set.sequence)
    IN [set EXCEPT !.elements = Put(@, element, ORSetTags(set, element) \cup {tag})]

\* add: the wall clock reading is an input
ORSetAdd(set, element, now) ==
    LET seq == set.sequence + 1
        tag == UniqueTag(set.replica_id, now, seq)
    IN [set EXCEPT !.sequence = seq,
                   !.elements = Put(@, element, ORSetTags(set, element) \cup {tag})]

ORSetRemove(set, element) ==
    [set EXCEPT !.removed_tags = @ \cup ORSetTags(set, element)]

\* contains demanding that no tag of the element is removed.
ORSetContainsAll(set, element) ==
    /\ element \in DOMAIN set.elements
    /\ \A tag \in set.elements[element] : tag \notin set.removed_tags

ORSetContains(set, element) ==
    /\ element \in DOMAIN set.elements
    /\ \E tag \in set.elements[element] : tag \notin set.removed_tags

\* merge keeping, for every element, only the tags both sets hold.
ORSetMergeCommonTags(set, other) ==
    [set EXCEPT
        !.elements = [e \in (DOMAIN set.elements) \cup (DOMAIN other.elements) |->
                         ORSetTags(set, e) \cap ORSetTags(other, e)],
        !.removed_tags = @ \cup other.removed_tags]

\* merge that unions the tags and leaves removed_tags as they were.
ORSetMergeTagsOnly(set, other) ==
    [set EXCEPT
        !.elements = [e \in (DOMAIN set.elements) \cup (DOMAIN other.elements) |->
                         ORSetTags(set, e) \cup ORSetTags(other, e)]]

ORSetMerge(set, other) ==
    [set EXCEPT
        !.elements = [e \in (DOMAIN set.elements) \cup (DOMAIN other.elements) |->
                         ORSetTags(set, e) \cup ORSetTags(other, e)],
        !.removed_tags = @ \cup other.removed_tags]

\* clear that forgets the tags instead of marking them removed
ORSetClearForget(set) ==
    [set EXCEPT !.elements = [e \in DOMAIN @ |-> {}]]

ORSetClear(set) ==
    [set EXCEPT !.removed_tags =
        @ \cup UNION {set.elements[e] : e \in DOMAIN set.elements}]

(***************************************************************************)
(* FractionalIndex  (crdt/fractional_index.rs)                             *)
(* A key is the sequence of the bytes of its position string.              *)
(***************************************************************************)
BASE == 62
DEPTH_LIMIT == 20

\* b"0123456789ABCDEFGHIJKLMNOPQRSTUVWXYZabcdefghijklmnopqrstuvwxyz"
DIGITS == [i \in 1..62 |-> IF i <= 10 THEN 47 + i ELSE IF i <= 36 THEN 54 + i ELSE 60 + i]

\* digit_to_value: b'0'..=b'9', b'A'..=b'Z', b'a'..=b'z', anything else 0
DigitToValue(digit) ==
    IF digit >= 48 /\ digit <= 57 THEN digit - 48
    ELSE IF digit >= 65 /\ digit <= 90 THEN digit - 65 + 10
    ELSE IF digit >= 97 /\ digit <= 122 THEN digit - 97 + 36
    ELSE 0

CharToValue(c) == DigitToValue(c)

\* The digit one place further on in DIGITS.
ValueToCharShifted(value) == DIGITS[value + 2]

\* DIGITS[value as usize], the slice indexed from 0
ValueToChar(value) == DIGITS[value + 1]

\* String::cmp: bytewise, a proper prefix is smaller
KeyLess(a, b) ==
    \E k \in 1..Len(b) :
        /\ \A j \in 1..(k - 1) : j <= Len(a) /\ a[j] = b[j]
        /\ (k > Len(a) \/ a[k] < b[k])

FIFirst == <<97, 48>>
FILast  == [i \in 1..10 |-> 122]

\* compute_midpoint, from index i with `result` built so far
RECURSIVE ComputeMidpointFrom(_, _, _, _)
ComputeMidpointFrom(left, right, i, result) ==
    LET left_digit  == IF i < Len(left) THEN CharToValue(left[i + 1]) ELSE 0
        right_digit == IF i < Len(right) THEN CharToValue(right[i + 1]) ELSE BASE
    IN IF left_digit > right_digit
       THEN [panicked |-> TRUE, key |-> result]
       ELSE IF left_digit + 1 < right_digit
       THEN [panicked |-> FALSE,
             key |-> Append(result, ValueToChar((left_digit + right_digit) \div 2))]
       ELSE LET copied == Append(result, ValueToChar(left_digit))
            IN IF i + 1 > DEPTH_LIMIT
               THEN [panicked |-> FALSE, key |-> Append(copied, ValueToChar(BASE \div 2))]
               ELSE ComputeMidpointFrom(left, right, i + 1, copied)

ComputeMidpoint(left, right) == ComputeMidpointFrom(left, right, 0, <<>>)

\* between: the assert! on left < right, then the midpoint
Between(left, right) ==
    IF ~KeyLess(left, right)
    THEN [status |-> "assert failed", key |-> <<>>]
    ELSE LET m == ComputeMidpoint(left, right)
         IN IF m.panicked THEN [status |-> "unreachable", key |-> m.key]
            ELSE [status |-> "ok", key |-> m.key]

After(pos)  == Between(pos, FILast)
Before(pos) == Between(FIFirst, pos)

(***************************************************************************)
(* Item and ItemId  (crdt/text/item.rs, crdt/text/id.rs)                   *)
(* An Option is a sequence: <<>> for None, <<x>> for Some(x).              *)
(***************************************************************************)
None == <<>>
Some(x) == <<x>>

ItemIdNew(client_id, clock) == <<client_id, clock>>

\* Ord for ItemId: (replica, counter), lexicographic
ItemIdLess(a, b) == a[1] < b[1] \/ (a[1] = b[1] /\ a[2] < b[2])

\* Item::new_char
NewChar(id, ch, left, right) ==
    [id |-> id, content |-> <<ch>>, left |-> left, right |-> right, deleted |-> FALSE]

\* Item::can_merge_with
CanMergeWith(a, b) ==
    /\ a.id[1] = b.id[1]
    /\ b.id[2] = a.id[2] + Len(a.content)
    /\ b.left = Some(a.id)
    /\ b.right = a.right
    /\ a.deleted = b.deleted

\* Item::merge: keeps the id and left of a, appends b's content, takes b's right
ItemMerge(a, b) == [a EXCEPT !.content = a.content \o b.content, !.right = b.right]

\* Item::delete
ItemDelete(item) == [item EXCEPT !.deleted = TRUE]

(***************************************************************************)
(* Text  (crdt/text/text.rs)                                               *)
(* sequence is a Vec: index i of the code is element i + 1 here.           *)
(***************************************************************************)
TextNew(client_id) ==
    [client_id |-> client_id, clock |-> 0, items |-> [i \in {} |-> 0], sequence |-> <<>>]

\* Vec::insert(pos, x) and Vec::remove(pos), pos counted from 0
VecInsert(v, pos, x) == SubSeq(v, 1, pos) \o <<x>> \o SubSeq(v, pos + 1, Len(v))
VecRemove(v, pos) == SubSeq(v, 1, pos) \o SubSeq(v, pos + 2, Len(v))

\* sequence.iter().position(|&id| id == x), -1 for None
PositionOf(v, x) ==
    IF \E i \in 1..Len(v) : v[i] = x
    THEN (CHOOSE i \in 1..Len(v) : v[i] = x /\ \A j \in 1..(i - 1) : v[j] # x) - 1
    ELSE -1

\* Display: the content of the items of sequence that are not deleted
RECURSIVE RenderFrom(_, _)
RenderFrom(text, i) ==
    IF i > Len(text.sequence) THEN <<>>
    ELSE LET item == text.items[text.sequence[i]]
         IN (IF item.deleted THEN <<>> ELSE item.content) \o RenderFrom(text, i + 1)

Render(text) == RenderFrom(text, 1)

TextLen(text) == Len(Render(text))

\* the next item of sequence after index i (from 0) that is not deleted
RECURSIVE NextVisible(_, _)
NextVisible(text, j) ==
    IF j >= Len(text.sequence) THEN None
    ELSE IF ~text.items[text.sequence[j + 1]].deleted THEN Some(text.sequence[j + 1])
    ELSE NextVisible(text, j + 1)

\* the loop of get_origins_at_position from index i with visible_pos
RECURSIVE OriginsFrom(_, _, _, _)
OriginsFrom(text, position, i, visible_pos) ==
    IF i >= Len(text.sequence)
    THEN <<(IF text.sequence = <<>> THEN None ELSE Some(text.sequence[Len(text.sequence)])),
           None>>
    ELSE LET id   == text.sequence[i + 1]
             item == text.items[id]
         IN IF item.deleted THEN OriginsFrom(text, position, i + 1, visible_pos)
            ELSE IF visible_pos + Len(item.content) >= position
            THEN <<Some(id), NextVisible(text, i + 1)>>
            ELSE OriginsFrom(text, position, i + 1, visible_pos + Len(item.content))

GetOriginsAtPosition(text, position) ==
    IF position = 0
    THEN <<None, (IF text.sequence = <<>> THEN None ELSE Some(text.sequence[1]))>>
    ELSE OriginsFrom(text, position, 0, 0)

\* integrate_item, the scan after a left origin found at left_pos
RECURSIVE ScanAfterLeft(_, _, _)
ScanAfterLeft(text, item, pos) ==
    IF pos >= Len(text.sequence) THEN pos
    ELSE LET current_id   == text.sequence[pos + 1]
             current_item == text.items[current_id]
         IN IF Some(current_id) = item.right THEN pos
            ELSE IF current_item.left = item.left
            THEN IF ItemIdLess(item.id, current_id) THEN pos
                 ELSE ScanAfterLeft(text, item, pos + 1)
            ELSE IF /\ item.right # None
                    /\ current_item.left # None
                    /\ ItemIdLess(item.left[1], current_item.left[1])
            THEN pos
            ELSE ScanAfterLeft(text, item, pos + 1)

\* integrate_item, the scan of an item without left origin
RECURSIVE ScanFromStart(_, _, _)
ScanFromStart(text, item, pos) ==
    IF pos >= Len(text.sequence) THEN pos
    ELSE LET current_id   == text.sequence[pos + 1]
             current_item == text.items[current_id]
         IN IF Some(current_id) = item.right THEN pos
            ELSE IF current_item.left = None
            THEN IF ItemIdLess(item.id, current_id) THEN pos
                 ELSE ScanFromStart(text, item, pos + 1)
            ELSE pos

IntegrateItem(text, item_id) ==
    LET item == text.items[item_id]
        insert_pos ==
            IF item.left # None
            THEN LET left_pos == PositionOf(text.sequence, item.left[1])
                 IN IF left_pos >= 0 THEN ScanAfterLeft(text, item, left_pos + 1)
                    ELSE Len(text.sequence)
            ELSE ScanFromStart(text, item, 0)
    IN [text EXCEPT !.sequence = VecInsert(@, insert_pos, item_id)]

RECURSIVE IntegrateItems(_, _)
IntegrateItems(text, item_ids) ==
    IF item_ids = <<>> THEN text
    ELSE IntegrateItems(IntegrateItem(text, Head(item_ids)), Tail(item_ids))

\* the items map without the key id
\* a removal that leaves the entry in the map
RemoveKeyKept(m, id) == m

RemoveKey(m, id) == [k \in (DOMAIN m) \ {id} |-> m[k]]

RECURSIVE MergeBlocksFrom(_, _)
MergeBlocksFrom(text, i) ==
    IF i + 1 >= Len(text.sequence) THEN text
    ELSE LET id1 == text.sequence[i + 1]
             id2 == text.sequence[i + 2]
         IN IF CanMergeWith(text.items[id1], text.items[id2])
            THEN MergeBlocksFrom(
                    [text EXCEPT
                        !.items = [RemoveKey(@, id2) EXCEPT
                                      ![id1] = ItemMerge(text.items[id1], text.items[id2])],
                        !.sequence = VecRemove(@, i + 1)],
                    i)
            ELSE MergeBlocksFrom(text, i + 1)

MergeBlocks(text) == MergeBlocksFrom(text, 0)

\* insert(position, text): one item per character, all with the same origins
RECURSIVE CreateItems(_, _, _)
CreateItems(text, chars, origins) ==
    IF chars = <<>> THEN [text |-> text, created_ids |-> <<>>]
    ELSE LET id   == ItemIdNew(text.client_id, text.clock)
             item == NewChar(id, Head(chars), origins[1], origins[2])
             rest == CreateItems([text EXCEPT !.clock = @ + 1,
                                              !.items = Put(@, id, item)],
                                 Tail(chars), origins)
         IN [text |-> rest.text, created_ids |-> <<id>> \o rest.created_ids]

TextInsert(text, position, chars) ==
    LET origins == GetOriginsAtPosition(text, position)
        made    == CreateItems(text, chars, origins)
    IN [text |-> MergeBlocks(IntegrateItems(made.text, made.created_ids)),
        created_ids |-> made.created_ids]

\* the loop of delete from index i with visible_pos
RECURSIVE DeleteFrom(_, _, _, _, _, _)
DeleteFrom(text, position, length, i, visible_pos, deleted_ids) ==
    IF i >= Len(text.sequence) THEN [text |-> text, deleted_ids |-> deleted_ids]
    ELSE LET id   == text.sequence[i + 1]
             item == text.items[id]
             item_len == Len(item.content)
             overlaps == visible_pos < position + length /\ visible_pos + item_len > position
             after == IF overlaps THEN [text EXCEPT !.items[id] = ItemDelete(@)] ELSE text
             ids   == IF overlaps THEN Append(deleted_ids, id) ELSE deleted_ids
         IN IF item.deleted
            THEN DeleteFrom(text, position, length, i + 1, visible_pos, deleted_ids)
            ELSE IF visible_pos + item_len >= position + length
            THEN [text |-> after, deleted_ids |-> ids]
            ELSE DeleteFrom(after, position, length, i + 1, visible_pos + item_len, ids)

TextDelete(text, position, length) == DeleteFrom(text, position, length, 0, 0, <<>>)

\* merge: the items of other this replica does not hold
NewItemIds(text, other) == (DOMAIN other.items) \ (DOMAIN text.items)

\* merge that leaves the clock of the replica as it was
TextMergeKeepClock(text, other, new_items) ==
    LET merged_items ==
            [id \in (DOMAIN text.items) \cup (DOMAIN other.items) |->
                IF id \in DOMAIN text.items
                THEN IF id \in DOMAIN other.items /\ other.items[id].deleted
                     THEN [text.items[id] EXCEPT !.deleted = TRUE]
                     ELSE text.items[id]
                ELSE other.items[id]]
        copied == [text EXCEPT !.items = merged_items]
    IN MergeBlocks(IntegrateItems(copied, new_items))

\* merge(other); new_items lists NewItemIds in the order the iteration over
\* other.items (a HashMap) met them
TextMerge(text, other, new_items) ==
    LET merged_items ==
            [id \in (DOMAIN text.items) \cup (DOMAIN other.items) |->
                IF id \in DOMAIN text.items
                THEN IF id \in DOMAIN other.items /\ other.items[id].deleted
                     THEN [text.items[id] EXCEPT !.deleted = TRUE]
                     ELSE text.items[id]
                ELSE other.items[id]]
        copied == [text EXCEPT !.clock = Max(@, other.clock), !.items = merged_items]
    IN MergeBlocks(IntegrateItems(copied, new_items))

\* insert and merge as they are without the call of merge_blocks
TextInsertPlain(text, position, chars) ==
    LET origins == GetOriginsAtPosition(text, position)
        made    == CreateItems(text, chars, origins)
    IN [text |-> IntegrateItems(made.text, made.created_ids),
        created_ids |-> made.created_ids]

TextMergePlain(text, other, new_items) ==
    LET merged_items ==
            [id \in (DOMAIN text.items) \cup (DOMAIN other.items) |->
                IF id \in DOMAIN text.items
                THEN IF id \in DOMAIN other.items /\ other.items[id].deleted
                     THEN [text.items[id] EXCEPT !.deleted = TRUE]
                     ELSE text.items[id]
                ELSE other.items[id]]
        copied == [text EXCEPT !.clock = Max(@, other.clock), !.items = merged_items]
    IN IntegrateItems(copied, new_items)

\* every order of the elements of S
Orders(S) ==
    {p \in [1..Cardinality(S) -> S] : \A i, j \in 1..Cardinality(S) : i # j => p[i] # p[j]}

(***************************************************************************)
(* Documents the operations are tried on.                                  *)
(***************************************************************************)
DocIds == {"doc1"}
Paths  == {"title", "body"}
Values == {"A", "B"}

TimestampSample == [clock : 1..MaxTs, client_id : Clients]
FieldSample     == [value : Values, timestamp : TimestampSample]
\* "title" is written by every client with every value; "body" by c1 alone.
FieldsAt(p) ==
    IF p = "title" THEN FieldSample
    ELSE {f \in FieldSample : f.value = "A" /\ f.timestamp.client_id = "c1"}
FieldMaps ==
    UNION {{m \in [D -> FieldSample] : \A p \in D : m[p] \in FieldsAt(p)} : D \in SUBSET Paths}
PartialMaps(K, V) == UNION {[D -> V] : D \in SUBSET K}
VersionSample   == PartialMaps(Clients, 1..MaxVer)
DocSample ==
    [id : DocIds, fields : FieldMaps, version : VersionSample]

(***************************************************************************)
(* The state of each component before anything is called on it; a          *)
(* specification keeps the components it does not drive in this state.     *)
(***************************************************************************)
NoVcOp == [op |-> "none"]

IdleVC == clockA = VCNew /\ clockB = VCNew /\ vcOp = NoVcOp

NoDocOp == [a |-> <<>>, b |-> <<>>]

IdleDoc ==
    /\ docX = DocumentNew("doc1") /\ docY = DocumentNew("doc1")
    /\ repA = DocumentNew("doc1") /\ repB = DocumentNew("doc1")
    /\ docOp = NoDocOp

\* Two OR-Set replicas with distinct replica ids.
Replicas == {"A", "B"}
ReplicaId == [w \in Replicas |-> IF w = "A" THEN "c1" ELSE "c2"]
Peer(w) == IF w = "A" THEN "B" ELSE "A"

\* issued: every add so far, racing when the peer has removed the element,
\* having observed an add of it, without the remover seeing this add or the
\* adder knowing of that removal;
\* removedBy: the tags each replica's own remove and clear calls covered;
\* seen: <<w, v>> when w has merged everything v holds
NoOrOp == [issued |-> {}, removedBy |-> [w \in Replicas |-> {}], seen |-> {}]

IdleOR == sets = [w \in Replicas |-> ORSetNew(ReplicaId[w])] /\ orOp = NoOrOp

\* Keys between is tried on: the bytes '0', '1', 'a', 'b', 'z'.
KeyBytes == {48, 49, 97, 98, 122}
KeysOfLen(n) == [1..n -> KeyBytes]
KeySample == UNION {KeysOfLen(n) : n \in 1..MaxKeyLen}

NoFiOut == [status |-> "none", key |-> <<>>, narrowed |-> 0]
IdleFI == fiLeft = FIFirst /\ fiRight = FILast /\ fiOut = NoFiOut

\* Text replicas: client ids 1 and 2.  The character typed into the item with
\* a given id is a letter of its own.
TextClient == [w \in Replicas |-> IF w = "A" THEN 1 ELSE 2]
Alphabet == [c \in {1, 2} |-> IF c = 1 THEN <<"a", "b", "c", "d", "e", "f">>
                                        ELSE <<"u", "v", "w", "x", "y", "z">>]
Typed(text, n) == [k \in 1..n |-> Alphabet[text.client_id][text.clock + k]]

\* seen: <<w, v>> when w has merged everything v holds
NoTextOp == [seen |-> {}]
IdleText == texts = [w \in Replicas |-> TextNew(TextClient[w])] /\ textOp = NoTextOp

(***************************************************************************)
(* Specification SpecVC: two vector clocks under tick, update, merge and   *)
(* compare.                                                                *)
(***************************************************************************)
InitVC ==
    /\ clockA = VCNew /\ clockB = VCNew /\ vcOp = NoVcOp
    /\ IdleDoc /\ IdleOR /\ IdleFI /\ IdleText

VcTickA(r) ==
    /\ VCGet(clockA, r) < MaxClock
    /\ clockA' = VCTick(clockA, r)
    /\ vcOp' = [op |-> "tick", who |-> "A", client |-> r, pre |-> clockA]
    /\ UNCHANGED <<clockB, notVc>>

VcTickB(r) ==
    /\ VCGet(clockB, r) < MaxClock
    /\ clockB' = VCTick(clockB, r)
    /\ vcOp' = [op |-> "tick", who |-> "B", client |-> r, pre |-> clockB]
    /\ UNCHANGED <<clockA, notVc>>

VcUpdateA(r, v) ==
    /\ clockA' = VCUpdate(clockA, r, v)
    /\ vcOp' = [op |-> "update", who |-> "A", client |-> r, pre |-> clockA]
    /\ UNCHANGED <<clockB, notVc>>

VcMergeAB ==
    /\ clockA' = VCMerge(clockA, clockB)
    /\ vcOp' = [op |-> "merge", who |-> "A", pre |-> clockA, other |-> clockB]
    /\ UNCHANGED <<clockB, notVc>>

VcMergeBA ==
    /\ clockB' = VCMerge(clockB, clockA)
    /\ vcOp' = [op |-> "merge", who |-> "B", pre |-> clockB, other |-> clockA]
    /\ UNCHANGED <<clockA, notVc>>

VcCompareAB ==
    /\ vcOp' = [op |-> "compare", who |-> "A", pre |-> clockA, other |-> clockB,
                res |-> VCCompare(clockA, clockB),
                concurrent |-> VCIsConcurrent(clockA, clockB)]
    /\ UNCHANGED <<clockA, clockB, notVc>>

NextVC ==
    \/ \E r \in Clients : VcTickA(r)
    \/ \E r \in Clients : VcTickB(r)
    \/ \E r \in Clients, v \in 0..MaxClock : VcUpdateA(r, v)
    \/ VcMergeAB
    \/ VcMergeBA
    \/ VcCompareAB

SpecVC == InitVC /\ [][NextVC]_vars

(***************************************************************************)
(* Specification SpecLww: merge_field, merge and the delta round trip on   *)
(* two documents.                                                          *)
(***************************************************************************)
\* Two documents X and Y; replica A starts as a clone of X, replica B of Y.
InitLww ==
    /\ docX \in DocSample
    /\ docY \in DocSample
    /\ repA = docX
    /\ repB = docY
    /\ docOp = NoDocOp
    /\ IdleVC
    /\ IdleOR
    /\ IdleFI
    /\ IdleText

\* A.merge_field(path, Y's field at path)
LwwMergeFieldA(p) ==
    /\ docOp = NoDocOp
    /\ p \in DOMAIN docY.fields
    /\ LET r == MergeField(repA, p, docY.fields[p])
       IN /\ repA' = r.doc
          /\ docOp' = [docOp EXCEPT !.a = <<[op |-> "merge_field", path |-> p,
                                            ret |-> r.updated, pre |-> repA]>>]
    /\ UNCHANGED <<docX, docY, repB, notDoc>>

\* The same two fields with the roles swapped: B.merge_field(path, X's field)
LwwMergeFieldB(p) ==
    /\ docOp.b = <<>>
    /\ Len(docOp.a) = 1 /\ docOp.a[1].op = "merge_field" /\ docOp.a[1].path = p
    /\ p \in DOMAIN docX.fields
    /\ LET r == MergeField(repB, p, docX.fields[p])
       IN /\ repB' = r.doc
          /\ docOp' = [docOp EXCEPT !.b = <<[op |-> "merge_field", path |-> p,
                                            ret |-> r.updated, pre |-> repB]>>]
    /\ UNCHANGED <<docX, docY, repA, notDoc>>

\* A.merge(&Y), once or a second time
LwwMergeA ==
    /\ docOp.b = <<>>
    /\ \/ docOp.a = <<>>
       \/ Len(docOp.a) = 1 /\ docOp.a[1].op = "merge"
    /\ LET r == Merge(repA, docY)
       IN /\ repA' = r.doc
          /\ docOp' = [docOp EXCEPT !.a = Append(@, [op |-> "merge", ret |-> r.count,
                                                     pre |-> repA])]
    /\ UNCHANGED <<docX, docY, repB, notDoc>>

\* B.merge(&X)
LwwMergeB ==
    /\ docOp.b = <<>>
    /\ Len(docOp.a) = 1 /\ docOp.a[1].op = "merge"
    /\ LET r == Merge(repB, docX)
       IN /\ repB' = r.doc
          /\ docOp' = [docOp EXCEPT !.b = <<[op |-> "merge", ret |-> r.count,
                                            pre |-> repB]>>]
    /\ UNCHANGED <<docX, docY, repA, notDoc>>

\* apply_delta(&mut A, &compute_delta(&X, &Y)) on the clone A of X
LwwRoundTrip ==
    /\ docOp = NoDocOp
    /\ LET r == ApplyDelta(repA, ComputeDelta(docX, docY))
       IN /\ repA' = r.doc
          /\ docOp' = [docOp EXCEPT !.a = <<[op |-> "roundtrip", ret |-> r.panicked,
                                            pre |-> repA]>>]
    /\ UNCHANGED <<docX, docY, repB, notDoc>>

NextLww ==
    \/ \E p \in Paths : LwwMergeFieldA(p)
    \/ \E p \in Paths : LwwMergeFieldB(p)
    \/ LwwMergeA
    \/ LwwMergeB
    \/ LwwRoundTrip

SpecLww == InitLww /\ [][NextLww]_vars

(***************************************************************************)
(* Specification SpecBatch: two deltas of one document, carrying the fields *)
(* and versions of X and Y, are merged with merge_deltas and applied to A,  *)
(* and applied one after the other, in either order, to B.                  *)
(***************************************************************************)
\* the delta that carries every field and the version of a document
DeltaOf(doc) == DeltaNew(doc.id, doc.fields, doc.version)

\* the documents the deltas are applied to hold at most "title"
BaseSample == {d \in DocSample : DOMAIN d.fields \subseteq {"title"} /\ d.version = VCNew}

InitBatch ==
    /\ docX \in DocSample
    /\ docY \in DocSample
    /\ repA \in BaseSample
    /\ repB = repA
    /\ docOp = NoDocOp
    /\ IdleVC
    /\ IdleOR
    /\ IdleFI
    /\ IdleText

\* apply_delta(&mut A, &merge_deltas(&d1, &d2))
BatchApplyMerged ==
    /\ docOp.a = <<>>
    /\ LET m == MergeDeltas(DeltaOf(docX), DeltaOf(docY))
           r == ApplyDelta(repA, m.delta)
       IN /\ ~m.panicked
          /\ repA' = r.doc
          /\ docOp' = [docOp EXCEPT !.a = <<[op |-> "merge_deltas", ret |-> m.delta,
                                            pre |-> repA]>>]
    /\ UNCHANGED <<docX, docY, repB, notDoc>>

\* apply_delta(&mut B, &d1) when k = 1, apply_delta(&mut B, &d2) when k = 2
BatchApplyOne(k) ==
    /\ docOp.a # <<>>
    /\ \A i \in 1..Len(docOp.b) : docOp.b[i].index # k
    /\ LET r == ApplyDelta(repB, DeltaOf(IF k = 1 THEN docX ELSE docY))
       IN /\ repB' = r.doc
          /\ docOp' = [docOp EXCEPT !.b = Append(@, [op |-> "apply_delta", index |-> k,
                                                     pre |-> repB])]
    /\ UNCHANGED <<docX, docY, repA, notDoc>>

NextBatch ==
    \/ BatchApplyMerged
    \/ \E k \in 1..2 : BatchApplyOne(k)

SpecBatch == InitBatch /\ [][NextBatch]_vars

(***************************************************************************)
(* Specification SpecSame: a remote document Y reaches two copies of the    *)
(* local document X, as a delta through apply_delta on A and through       *)
(* Document::merge on B.                                                    *)
(***************************************************************************)
InitSame ==
    /\ docX \in DocSample
    /\ docY \in DocSample
    /\ repA = docX
    /\ repB = docX
    /\ docOp = NoDocOp
    /\ IdleVC
    /\ IdleOR
    /\ IdleFI
    /\ IdleText

\* apply_delta(&mut A, &delta) with the delta carrying Y's fields and version
SameApplyDelta ==
    /\ docOp.a = <<>>
    /\ LET r == ApplyDelta(repA, DeltaOf(docY))
       IN /\ repA' = r.doc
          /\ docOp' = [docOp EXCEPT !.a = <<[op |-> "apply_delta", ret |-> r.panicked,
                                            pre |-> repA]>>]
    /\ UNCHANGED <<docX, docY, repB, notDoc>>

\* B.merge(&Y)
SameMerge ==
    /\ docOp.b = <<>>
    /\ LET r == Merge(repB, docY)
       IN /\ repB' = r.doc
          /\ docOp' = [docOp EXCEPT !.b = <<[op |-> "merge", ret |-> r.count,
                                            pre |-> repB]>>]
    /\ UNCHANGED <<docX, docY, repA, notDoc>>

NextSame ==
    \/ SameApplyDelta
    \/ SameMerge

SpecSame == InitSame /\ [][NextSame]_vars

(***************************************************************************)
(* Specification SpecMono: any sequence of merge_field, merge and           *)
(* apply_delta on document A.  docOp.a holds the last call: the document    *)
(* before it and the fields that came in.                                   *)
(***************************************************************************)
InitMono ==
    /\ IdleDoc
    /\ IdleVC
    /\ IdleOR
    /\ IdleFI
    /\ IdleText

\* A.merge_field(path, remote_field)
MonoMergeField(path, remote_field) ==
    /\ repA' = MergeField(repA, path, remote_field).doc
    /\ docOp' = [docOp EXCEPT !.a = <<[op |-> "merge_field", pre |-> repA,
                                      incoming |-> Put(EmptyMap, path, remote_field)]>>]
    /\ UNCHANGED <<docX, docY, repB, notDoc>>

\* A.merge(&remote)
MonoMerge(remote) ==
    /\ repA' = Merge(repA, remote).doc
    /\ docOp' = [docOp EXCEPT !.a = <<[op |-> "merge", pre |-> repA,
                                      incoming |-> remote.fields]>>]
    /\ UNCHANGED <<docX, docY, repB, notDoc>>

\* apply_delta(&mut A, &delta) with the delta carrying remote's fields and version
MonoApplyDelta(remote) ==
    /\ repA' = ApplyDelta(repA, DeltaOf(remote)).doc
    /\ docOp' = [docOp EXCEPT !.a = <<[op |-> "apply_delta", pre |-> repA,
                                      incoming |-> remote.fields]>>]
    /\ UNCHANGED <<docX, docY, repB, notDoc>>

NextMono ==
    \/ \E path \in Paths : \E remote_field \in FieldsAt(path) :
          MonoMergeField(path, remote_field)
    \/ \E remote \in DocSample : MonoMerge(remote)
    \/ \E remote \in DocSample : MonoApplyDelta(remote)

SpecMono == InitMono /\ [][NextMono]_vars

(***************************************************************************)
(* Specification SpecLive: two replicas of one document.  Each writes with  *)
(* set_field under its own client id, at most MaxWrites times, and merges   *)
(* the other replica's state; merging is weakly fair.                       *)
(***************************************************************************)
InitLive ==
    /\ IdleDoc
    /\ IdleVC
    /\ IdleOR
    /\ IdleFI
    /\ IdleText

\* A.set_field(path, value, clock, "c1")
LiveSetA(path, value, clock) ==
    /\ Len(docOp.a) < MaxWrites
    /\ repA' = SetField(repA, path, value, clock, "c1")
    /\ docOp' = [docOp EXCEPT !.a = Append(@, [op |-> "set_field"])]
    /\ UNCHANGED <<docX, docY, repB, notDoc>>

\* B.set_field(path, value, clock, "c2")
LiveSetB(path, value, clock) ==
    /\ Len(docOp.b) < MaxWrites
    /\ repB' = SetField(repB, path, value, clock, "c2")
    /\ docOp' = [docOp EXCEPT !.b = Append(@, [op |-> "set_field"])]
    /\ UNCHANGED <<docX, docY, repA, notDoc>>

\* A.merge(&B)
LiveMergeA ==
    /\ repA' = Merge(repA, repB).doc
    /\ UNCHANGED <<docX, docY, repB, docOp, notDoc>>

\* B.merge(&A)
LiveMergeB ==
    /\ repB' = Merge(repB, repA).doc
    /\ UNCHANGED <<docX, docY, repA, docOp, notDoc>>

NextLive ==
    \/ \E path \in Paths, value \in Values, clock \in 1..MaxTs : LiveSetA(path, value, clock)
    \/ \E path \in Paths, value \in Values, clock \in 1..MaxTs : LiveSetB(path, value, clock)
    \/ LiveMergeA
    \/ LiveMergeB

SpecLive ==
    /\ InitLive
    /\ [][NextLive]_vars
    /\ WF_vars(LiveMergeA)
    /\ WF_vars(LiveMergeB)

(***************************************************************************)
(* Specification SpecSet: one list of set_field operations applied to two   *)
(* empty documents, in the order of the list on A and in any order on B.    *)
(***************************************************************************)
OpSample == [path : Paths, value : Values, clock : 1..MaxTs, client_id : Clients]

InitSet ==
    /\ IdleDoc
    /\ IdleVC
    /\ IdleOR
    /\ IdleFI
    /\ IdleText

\* The next operation of the list: A.set_field(path, value, clock, client_id)
SetForward(o) ==
    /\ docOp.b = <<>>
    /\ Len(docOp.a) < MaxOps
    /\ repA' = SetField(repA, o.path, o.value, o.clock, o.client_id)
    /\ docOp' = [docOp EXCEPT !.a = Append(@, [op |-> "set_field", path |-> o.path,
                                               value |-> o.value, clock |-> o.clock,
                                               client_id |-> o.client_id, pre |-> repA])]
    /\ UNCHANGED <<docX, docY, repB, notDoc>>

\* B applies the i-th operation of the list, each operation once.
SetOther(i) ==
    /\ i \in 1..Len(docOp.a)
    /\ \A k \in 1..Len(docOp.b) : docOp.b[k].index # i
    /\ LET o == docOp.a[i]
       IN repB' = SetField(repB, o.path, o.value, o.clock, o.client_id)
    /\ docOp' = [docOp EXCEPT !.b = Append(@, [op |-> "set_field", index |-> i])]
    /\ UNCHANGED <<docX, docY, repA, notDoc>>

NextSet ==
    \/ \E o \in OpSample : SetForward(o)
    \/ \E i \in 1..MaxOps : SetOther(i)

SpecSet == InitSet /\ [][NextSet]_vars

(***************************************************************************)
(* Specification SpecStamp: three timestamps compared pairwise with         *)
(* compare_lww, is_newer_than and the derived Ord.                          *)
(***************************************************************************)
StampSample == [clock : 1..MaxTs, client_id : ClientIds]

InitStamp ==
    /\ docX = DocumentNew("doc1") /\ docY = DocumentNew("doc1")
    /\ repA = DocumentNew("doc1") /\ repB = DocumentNew("doc1")
    /\ docOp \in [a : {<<>>}, b : {<<>>}, stamps : StampSample \X StampSample \X StampSample]
    /\ IdleVC
    /\ IdleOR
    /\ IdleFI
    /\ IdleText

\* Every pair is compared: stamps[i].compare_lww(&stamps[j]),
\* stamps[i].is_newer_than(&stamps[j]) and stamps[i].cmp(&stamps[j]).
StampCompare ==
    /\ docOp.a = <<>>
    /\ LET t == docOp.stamps
       IN docOp' = [docOp EXCEPT !.a =
              <<[op |-> "compare_lww",
                 ret   |-> [i \in 1..3 |-> [j \in 1..3 |-> CompareLww(t[i], t[j])]],
                 newer |-> [i \in 1..3 |-> [j \in 1..3 |-> IsNewerThan(t[i], t[j])]],
                 cmp   |-> [i \in 1..3 |-> [j \in 1..3 |-> TsCmp(t[i], t[j])]]]>>]
    /\ UNCHANGED <<docX, docY, repA, repB, notDoc>>

NextStamp ==
    \/ StampCompare

SpecStamp == InitStamp /\ [][NextStamp]_vars

(***************************************************************************)
(* Specification SpecDelta: the two delta implementations.  A delta is     *)
(* computed from docX (old) to docY (new) and applied, once or twice, to   *)
(* the document repA, which holds what docX holds under an id of its own.  *)
(***************************************************************************)
DeltaIds == {"doc1", "doc2"}

InitDelta ==
    /\ docX \in DocSample
    /\ docY \in [id : DeltaIds, fields : FieldMaps, version : VersionSample]
    /\ repA \in {[docX EXCEPT !.id = i] : i \in DeltaIds}
    /\ repB = docY
    /\ docOp = NoDocOp
    /\ IdleVC
    /\ IdleOR
    /\ IdleFI
    /\ IdleText

\* compute_delta(&X, &Y)
DeltaComputeDelta ==
    /\ docOp = NoDocOp
    /\ docOp' = [docOp EXCEPT !.a = <<[op |-> "compute_delta",
                                       ret |-> Ok(ComputeDelta(docX, docY)),
                                       pre |-> repA]>>]
    /\ UNCHANGED <<docX, docY, repA, repB, notDoc>>

\* DocumentDelta::compute(&X, &Y)
DeltaCompute ==
    /\ docOp = NoDocOp
    /\ docOp' = [docOp EXCEPT !.a = <<[op |-> "compute",
                                       ret |-> DocumentDeltaCompute(docX, docY),
                                       pre |-> repA]>>]
    /\ UNCHANGED <<docX, docY, repA, repB, notDoc>>

\* apply_delta(&mut A, &compute_delta(&X, &Y)), once or a second time; a panic
\* ends the caller.
DeltaApplyDelta ==
    /\ \/ docOp.a = <<>>
       \/ Len(docOp.a) = 1 /\ docOp.a[1].op = "apply_delta" /\ ~docOp.a[1].ret
    /\ LET r == ApplyDelta(repA, ComputeDelta(docX, docY))
       IN /\ repA' = r.doc
          /\ docOp' = [docOp EXCEPT !.a = Append(@, [op |-> "apply_delta",
                                                     ret |-> r.panicked,
                                                     pre |-> repA])]
    /\ UNCHANGED <<docX, docY, repB, notDoc>>

\* DocumentDelta::compute(&X, &Y)?.apply_to(&mut A, _), once or a second time
DeltaApplyTo ==
    /\ \/ docOp.a = <<>>
       \/ Len(docOp.a) = 1 /\ docOp.a[1].op = "apply_to"
    /\ DocumentDeltaCompute(docX, docY).kind = "Ok"
    /\ LET r == ApplyTo(DocumentDeltaCompute(docX, docY).value, repA)
       IN /\ repA' = r.doc
          /\ docOp' = [docOp EXCEPT !.a = Append(@, [op |-> "apply_to",
                                                     ret |-> r.result,
                                                     pre |-> repA])]
    /\ UNCHANGED <<docX, docY, repB, notDoc>>

NextDelta ==
    \/ DeltaComputeDelta
    \/ DeltaCompute
    \/ DeltaApplyDelta
    \/ DeltaApplyTo

SpecDelta == InitDelta /\ [][NextDelta]_vars

(***************************************************************************)
(* SpecConv: two replicas created empty merge the same update documents    *)
(* docX and docY, each in an order of its own (test_convergence_property). *)
(***************************************************************************)
Update(u) == IF u = "X" THEN docX ELSE docY
UpdateNames == {"X", "Y"}
Applied(log) == {log[i].upd : i \in 1..Len(log)}

InitConv ==
    /\ docX \in DocSample
    /\ docY \in DocSample
    /\ docX.id = docY.id
    /\ repA = DocumentNew(docX.id)
    /\ repB = DocumentNew(docX.id)
    /\ docOp = NoDocOp
    /\ IdleVC
    /\ IdleOR
    /\ IdleFI
    /\ IdleText

\* replica1.merge(&update)
ConvMergeA(u) ==
    /\ u \notin Applied(docOp.a)
    /\ LET m == Merge(repA, Update(u))
       IN /\ repA' = m.doc
          /\ docOp' = [docOp EXCEPT !.a =
                          Append(@, [op |-> "merge", upd |-> u, ret |-> m.count, pre |-> repA])]
    /\ UNCHANGED <<docX, docY, repB, notDoc>>

\* replica2.merge(&update)
ConvMergeB(u) ==
    /\ u \notin Applied(docOp.b)
    /\ LET m == Merge(repB, Update(u))
       IN /\ repB' = m.doc
          /\ docOp' = [docOp EXCEPT !.b =
                          Append(@, [op |-> "merge", upd |-> u, ret |-> m.count, pre |-> repB])]
    /\ UNCHANGED <<docX, docY, repA, notDoc>>

NextConv ==
    \/ \E u \in UpdateNames : ConvMergeA(u)
    \/ \E u \in UpdateNames : ConvMergeB(u)

SpecConv == InitConv /\ [][NextConv]_vars

\* C2: replicas that have merged all of the update documents, in whichever
\* order each, hold the same value at every field path.
C2_MergeConverges ==
    (Applied(docOp.a) = UpdateNames /\ Applied(docOp.b) = UpdateNames) =>
        \A p \in Paths : GetField(repA, p) = GetField(repB, p)

(***************************************************************************)
(* SpecORSet: two OR-Set replicas under add, remove, clear and merge.      *)
(***************************************************************************)
InitORSet == IdleOR /\ IdleVC /\ IdleDoc /\ IdleFI /\ IdleText

\* a local call on w: the peer no longer holds everything w holds
Unsee(w) == orOp.seen \ {<<Peer(w), w>>}

\* the peer's adds of e that a removal by w covering the tags `covered` races
RaceWith(w, e, covered) ==
    {IF x.element = e /\ x.by = Peer(w) /\ covered # {} /\ x.tag \notin covered
     THEN [x EXCEPT !.racing = TRUE] ELSE x : x \in orOp.issued}

OrAdd(w, e, now) ==
    /\ sets[w].sequence < MaxSeq
    /\ LET after  == ORSetAdd(sets[w], e, now)
           tag    == UniqueTag(sets[w].replica_id, now, after.sequence)
           racing == \E y \in orOp.issued :
                        /\ y.element = e
                        /\ y.tag \in orOp.removedBy[Peer(w)]
                        /\ y.tag \notin sets[w].removed_tags
       IN /\ sets' = [sets EXCEPT ![w] = after]
          /\ orOp' = [orOp EXCEPT
                        !.issued = @ \cup {[element |-> e, tag |-> tag, by |-> w,
                                            racing |-> racing]},
                        !.seen = Unsee(w)]
    /\ UNCHANGED notOr

OrRemove(w, e) ==
    /\ sets' = [sets EXCEPT ![w] = ORSetRemove(@, e)]
    /\ orOp' = [orOp EXCEPT !.removedBy[w] = @ \cup ORSetTags(sets[w], e),
                            !.issued = RaceWith(w, e, ORSetTags(sets[w], e)),
                            !.seen = Unsee(w)]
    /\ UNCHANGED notOr

RECURSIVE RaceAll(_, _, _)
RaceAll(w, es, issued) ==
    IF es = {} THEN issued
    ELSE LET e == CHOOSE x \in es : TRUE
             covered == ORSetTags(sets[w], e)
         IN RaceAll(w, es \ {e},
                {IF x.element = e /\ x.by = Peer(w) /\ covered # {} /\ x.tag \notin covered
                 THEN [x EXCEPT !.racing = TRUE] ELSE x : x \in issued})

OrClear(w) ==
    /\ sets' = [sets EXCEPT ![w] = ORSetClear(@)]
    /\ orOp' = [orOp EXCEPT
                  !.removedBy[w] = @ \cup UNION {ORSetTags(sets[w], e) : e \in Elements},
                  !.issued = RaceAll(w, Elements, orOp.issued),
                  !.seen = Unsee(w)]
    /\ UNCHANGED notOr

OrMerge(w) ==
    /\ sets' = [sets EXCEPT ![w] = ORSetMerge(@, sets[Peer(w)])]
    /\ orOp' = [orOp EXCEPT !.seen = @ \cup {<<w, Peer(w)>>}]
    /\ UNCHANGED notOr

NextORSet ==
    \/ \E w \in Replicas, e \in Elements, now \in 1..MaxWall : OrAdd(w, e, now)
    \/ \E w \in Replicas, e \in Elements : OrRemove(w, e)
    \/ \E w \in Replicas : OrClear(w)
    \/ \E w \in Replicas : OrMerge(w)

SpecORSet == InitORSet /\ [][NextORSet]_vars

(***************************************************************************)
(* SpecORTags: add, remove and merge of one element on the two replicas,   *)
(* the wall clock standing still or running backwards between adds.        *)
(***************************************************************************)
NextORTags ==
    \/ \E w \in Replicas, now \in 1..MaxTagWall : OrAdd(w, "apple", now)
    \/ \E w \in Replicas : OrRemove(w, "apple")
    \/ \E w \in Replicas : OrMerge(w)

SpecORTags == InitORSet /\ [][NextORTags]_vars

(***************************************************************************)
(* SpecFI: between on two keys, its result taken as the next right key.    *)
(***************************************************************************)
InitFI ==
    /\ fiLeft \in KeySample
    /\ fiRight \in KeySample
    /\ fiOut = NoFiOut
    /\ IdleVC /\ IdleDoc /\ IdleOR /\ IdleText

\* m = FractionalIndex::between(&left, &right); a panic ends the run
FiBetween ==
    /\ fiOut.status = "none"
    /\ LET r == Between(fiLeft, fiRight)
       IN fiOut' = [fiOut EXCEPT !.status = r.status, !.key = r.key]
    /\ UNCHANGED <<fiLeft, fiRight, notFi>>

\* right = m
FiNarrow ==
    /\ fiOut.status = "ok"
    /\ fiOut.narrowed < MaxNarrow
    /\ fiRight' = fiOut.key
    /\ fiOut' = [status |-> "none", key |-> <<>>, narrowed |-> fiOut.narrowed + 1]
    /\ UNCHANGED <<fiLeft, notFi>>

NextFI ==
    \/ FiBetween
    \/ FiNarrow

SpecFI == InitFI /\ [][NextFI]_vars

(***************************************************************************)
(* SpecFIMany: test_insert_between_many_times.  positions starts as        *)
(* [first(), after(first())]; every round computes between(positions[0],   *)
(* positions[1]) and inserts the result at index 1.                        *)
(***************************************************************************)
InitFIMany ==
    /\ fiLeft = FIFirst
    /\ fiRight = After(FIFirst).key
    /\ fiOut = [status |-> "none", key |-> <<>>, narrowed |-> 0,
                positions |-> <<FIFirst, After(FIFirst).key>>]
    /\ IdleVC /\ IdleDoc /\ IdleOR /\ IdleText

\* positions.insert(1, middle); the next round reads positions[0], positions[1]
FiInsert ==
    /\ fiOut.status = "ok"
    /\ fiOut.narrowed < MaxInserts
    /\ LET positions == VecInsert(fiOut.positions, 1, fiOut.key)
       IN /\ fiLeft' = positions[1]
          /\ fiRight' = positions[2]
          /\ fiOut' = [status |-> "none", key |-> <<>>,
                       narrowed |-> fiOut.narrowed + 1, positions |-> positions]
    /\ UNCHANGED notFi

NextFIMany ==
    \/ FiBetween
    \/ FiInsert

SpecFIMany == InitFIMany /\ [][NextFIMany]_vars

(***************************************************************************)
(* SpecText: two Text replicas under insert, delete and merge.             *)
(***************************************************************************)
InitText == IdleText /\ IdleVC /\ IdleDoc /\ IdleOR /\ IdleFI

\* a local edit on w: the peer no longer holds everything w holds
TxtUnsee(w) == textOp.seen \ {<<Peer(w), w>>}

TxtInsert(w, position, n) ==
    /\ texts[w].clock + n <= MaxChars
    /\ position <= TextLen(texts[w])
    /\ LET r == TextInsert(texts[w], position, Typed(texts[w], n))
       IN /\ texts' = [texts EXCEPT ![w] = r.text]
          /\ textOp' = [seen |-> TxtUnsee(w)]
    /\ UNCHANGED notTxt

TxtDelete(w, position, length) ==
    /\ position + length <= TextLen(texts[w])
    /\ LET r == TextDelete(texts[w], position, length)
       IN /\ texts' = [texts EXCEPT ![w] = r.text]
          /\ textOp' = [seen |-> TxtUnsee(w)]
    /\ UNCHANGED notTxt

TxtMerge(w) ==
    /\ \E new_items \in Orders(NewItemIds(texts[w], texts[Peer(w)])) :
          texts' = [texts EXCEPT ![w] = TextMerge(@, texts[Peer(w)], new_items)]
    /\ textOp' = [seen |-> textOp.seen \cup {<<w, Peer(w)>>}]
    /\ UNCHANGED notTxt

NextText ==
    \/ \E w \in Replicas, position \in 0..MaxChars, n \in 1..MaxLen : TxtInsert(w, position, n)
    \/ \E w \in Replicas, position \in 0..MaxChars, length \in 1..MaxLen :
          TxtDelete(w, position, length)
    \/ \E w \in Replicas : TxtMerge(w)

SpecText == InitText /\ [][NextText]_vars

(***************************************************************************)
(* SpecTextOrder: the edits of SpecText, with every merge recording what   *)
(* each iteration order of other.items would have produced.                *)
(***************************************************************************)
\* w.merge(peer): new_items is one order of the copied ids; orders holds the
\* final sequence for every order the HashMap iteration can produce.
OrderMerge(w) ==
    /\ \E new_items \in Orders(NewItemIds(texts[w], texts[Peer(w)])) :
          texts' = [texts EXCEPT ![w] = TextMerge(@, texts[Peer(w)], new_items)]
    /\ textOp' = [seen |-> textOp.seen \cup {<<w, Peer(w)>>},
                  queued |-> NewItemIds(texts[w], texts[Peer(w)]),
                  orders |-> {TextMerge(texts[w], texts[Peer(w)], o).sequence :
                                 o \in Orders(NewItemIds(texts[w], texts[Peer(w)]))}]
    /\ UNCHANGED notTxt

NextTextOrder ==
    \/ \E w \in Replicas, position \in 0..MaxChars, n \in 1..MaxLen : TxtInsert(w, position, n)
    \/ \E w \in Replicas, position \in 0..MaxChars, length \in 1..MaxLen :
          TxtDelete(w, position, length)
    \/ \E w \in Replicas : OrderMerge(w)

SpecTextOrder == InitText /\ [][NextTextOrder]_vars

(***************************************************************************)
(* SpecTextTwin: every insert, delete and merge is run on the replicas and *)
(* on a second pair of replicas, textOp.plain, that never calls            *)
(* merge_blocks.                                                           *)
(***************************************************************************)
InitTextTwin ==
    /\ texts = [w \in Replicas |-> TextNew(TextClient[w])]
    /\ textOp = [seen |-> {}, plain |-> [w \in Replicas |-> TextNew(TextClient[w])]]
    /\ IdleVC
    /\ IdleDoc
    /\ IdleOR
    /\ IdleFI

TwinInsert(w, position, n) ==
    /\ texts[w].clock + n <= MaxChars
    /\ position <= TextLen(texts[w])
    /\ texts' = [texts EXCEPT ![w] = TextInsert(@, position, Typed(texts[w], n)).text]
    /\ textOp' = [seen |-> TxtUnsee(w),
                  plain |-> [textOp.plain EXCEPT ![w] =
                                TextInsertPlain(@, position, Typed(texts[w], n)).text]]
    /\ UNCHANGED notTxt

TwinDelete(w, position, length) ==
    /\ position + length <= TextLen(texts[w])
    /\ texts' = [texts EXCEPT ![w] = TextDelete(@, position, length).text]
    /\ textOp' = [seen |-> TxtUnsee(w),
                  plain |-> [textOp.plain EXCEPT ![w] = TextDelete(@, position, length).text]]
    /\ UNCHANGED notTxt

\* o keeps the ids that are also in new_items in the order new_items has them
SameOrder(o, new_items) ==
    \A i, j \in 1..Len(o) :
        \A k, l \in 1..Len(new_items) :
            (i < j /\ o[i] = new_items[k] /\ o[j] = new_items[l]) => k < l

\* Both pairs of replicas meet the items in one iteration order.
TwinMerge(w) ==
    \E new_items \in Orders(NewItemIds(texts[w], texts[Peer(w)])) :
        \E o \in Orders(NewItemIds(textOp.plain[w], textOp.plain[Peer(w)])) :
            /\ SameOrder(o, new_items)
            /\ texts' = [texts EXCEPT ![w] = TextMerge(@, texts[Peer(w)], new_items)]
            /\ textOp' = [seen |-> textOp.seen \cup {<<w, Peer(w)>>},
                          plain |-> [textOp.plain EXCEPT ![w] =
                                        TextMergePlain(@, textOp.plain[Peer(w)], o)]]
            /\ UNCHANGED notTxt

NextTextTwin ==
    \/ \E w \in Replicas, position \in 0..MaxChars, n \in 1..MaxLen : TwinInsert(w, position, n)
    \/ \E w \in Replicas, position \in 0..MaxChars, length \in 1..MaxLen :
          TwinDelete(w, position, length)
    \/ \E w \in Replicas : TwinMerge(w)

SpecTextTwin == InitTextTwin /\ [][NextTextTwin]_vars

(***************************************************************************)
(* SpecTextOne: insert and delete on replica A alone.  textOp also holds   *)
(* the last call: its arguments and the text rendered before it.           *)
(***************************************************************************)
InitTextOne ==
    /\ texts = [w \in Replicas |-> TextNew(TextClient[w])]
    /\ textOp = [seen |-> {}, op |-> "none"]
    /\ IdleVC /\ IdleDoc /\ IdleOR /\ IdleFI

\* A.insert(position, chars)
OneInsert(position, n) ==
    /\ texts["A"].clock + n <= MaxTyped
    /\ position <= TextLen(texts["A"])
    /\ LET chars == Typed(texts["A"], n)
           r == TextInsert(texts["A"], position, chars)
       IN /\ texts' = [texts EXCEPT !["A"] = r.text]
          /\ textOp' = [seen |-> {}, op |-> "insert", pre |-> Render(texts["A"]),
                        position |-> position, chars |-> chars]
    /\ UNCHANGED notTxt

\* A.delete(position, length)
OneDelete(position, length) ==
    /\ position + length <= TextLen(texts["A"])
    /\ LET r == TextDelete(texts["A"], position, length)
       IN /\ texts' = [texts EXCEPT !["A"] = r.text]
          /\ textOp' = [seen |-> {}, op |-> "delete", pre |-> Render(texts["A"]),
                        position |-> position, length |-> length]
    /\ UNCHANGED notTxt

NextTextOne ==
    \/ \E position \in 0..MaxTyped, n \in 1..MaxLen : OneInsert(position, n)
    \/ \E position \in 0..MaxTyped, length \in 1..MaxLen : OneDelete(position, length)

SpecTextOne == InitTextOne /\ [][NextTextOne]_vars

(***************************************************************************)
(* SpecTextRace: replica A writes a text, replica B merges it, then each   *)
(* inserts once without knowing of the other's insert, and they merge.     *)
(* textOp also holds: phase; chars[w], the characters of w's concurrent    *)
(* insert; left[w], the left origin its items were given.                  *)
(***************************************************************************)
InitTextRace ==
    /\ texts = [w \in Replicas |-> TextNew(TextClient[w])]
    /\ textOp = [seen |-> {}, phase |-> "base",
                 chars |-> [w \in Replicas |-> <<>>],
                 left |-> [w \in Replicas |-> None]]
    /\ IdleVC /\ IdleDoc /\ IdleOR /\ IdleFI

\* A.insert(position, chars) while A is alone
RaceType(position, n) ==
    /\ textOp.phase = "base"
    /\ texts["A"].clock + n <= MaxChars
    /\ position <= TextLen(texts["A"])
    /\ texts' = [texts EXCEPT !["A"] = TextInsert(@, position, Typed(@, n)).text]
    /\ UNCHANGED <<textOp, notTxt>>

\* A.delete(position, length) while A is alone
RaceErase(position, length) ==
    /\ textOp.phase = "base"
    /\ position + length <= TextLen(texts["A"])
    /\ texts' = [texts EXCEPT !["A"] = TextDelete(@, position, length).text]
    /\ UNCHANGED <<textOp, notTxt>>

\* B.merge(&A): from here on both replicas hold A's items
RaceShare ==
    /\ textOp.phase = "base"
    /\ \E new_items \in Orders(NewItemIds(texts["B"], texts["A"])) :
          texts' = [texts EXCEPT !["B"] = TextMerge(@, texts["A"], new_items)]
    /\ textOp' = [textOp EXCEPT !.phase = "shared"]
    /\ UNCHANGED notTxt

\* w.insert(position, chars), once, before any merge with the peer's insert
RaceInsert(w, position, n) ==
    /\ textOp.phase = "shared"
    /\ textOp.chars[w] = <<>>
    /\ textOp.seen = {}
    /\ position <= TextLen(texts[w])
    /\ texts' = [texts EXCEPT ![w] = TextInsert(@, position, Typed(@, n)).text]
    /\ textOp' = [textOp EXCEPT
                     !.chars[w] = Typed(texts[w], n),
                     !.left[w] = GetOriginsAtPosition(texts[w], position)[1]]
    /\ UNCHANGED notTxt

\* w.merge(&peer) after both inserts
RaceMerge(w) ==
    /\ \A v \in Replicas : textOp.chars[v] # <<>>
    /\ \E new_items \in Orders(NewItemIds(texts[w], texts[Peer(w)])) :
          texts' = [texts EXCEPT ![w] = TextMerge(@, texts[Peer(w)], new_items)]
    /\ textOp' = [textOp EXCEPT !.seen = @ \cup {<<w, Peer(w)>>}]
    /\ UNCHANGED notTxt

NextTextRace ==
    \/ \E position \in 0..MaxChars, n \in 1..MaxLen : RaceType(position, n)
    \/ \E position \in 0..MaxChars, length \in 1..MaxLen : RaceErase(position, length)
    \/ RaceShare
    \/ \E w \in Replicas, position \in 0..MaxChars, n \in 1..MaxLen :
          RaceInsert(w, position, n)
    \/ \E w \in Replicas : RaceMerge(w)

SpecTextRace == InitTextRace /\ [][NextTextRace]_vars

(***************************************************************************)
(* Properties of the vector clock (SpecVC).                                *)
(***************************************************************************)
\* Independent of the key sets: some replica's entry is smaller / greater.
SomeLess(a, b)    == \E r \in Clients : VCGet(a, r) < VCGet(b, r)
SomeGreater(a, b) == \E r \in Clients : VCGet(a, r) > VCGet(b, r)

C10_MergePointwiseMax ==
    vcOp.op = "merge" =>
        LET now == IF vcOp.who = "A" THEN clockA ELSE clockB
        IN /\ \A r \in Clients :
                 VCGet(now, r) = Max(VCGet(vcOp.pre, r), VCGet(vcOp.other, r))
           /\ VCCompare(now, vcOp.pre) # "Less"
           /\ VCCompare(now, vcOp.other) # "Less"

\* A merge of two clocks each ahead of the other on some replica.
C10_Witness ==
    /\ vcOp.op = "merge"
    /\ SomeLess(vcOp.pre, vcOp.other) /\ SomeGreater(vcOp.pre, vcOp.other)

\* The clock of the replica that ran the last recorded operation.
VcNow == IF vcOp.who = "A" THEN clockA ELSE clockB

\* C11: when B is a copy of clock A on which tick(r) has then been called,
\* A.compare(B) is Less (Before) and B.compare(A) is Greater (After).
C11_TickOrdersClocks ==
    vcOp.op = "tick" =>
        /\ VCCompare(vcOp.pre, VcNow) = "Less"
        /\ VCCompare(VcNow, vcOp.pre) = "Greater"

\* A tick of a replica that already has an entry, on a clock that also has an
\* entry for another replica.
C11_Witness ==
    /\ vcOp.op = "tick"
    /\ VCGet(vcOp.pre, vcOp.client) >= 1
    /\ \E r \in Clients \ {vcOp.client} : VCGet(vcOp.pre, r) >= 1
    /\ VCGet(VcNow, vcOp.client) = VCGet(vcOp.pre, vcOp.client) + 1

\* C12: along any sequence of tick, update and merge operations on a vector
\* clock, the entry get(r) never decreases for any replica r.
C12_EntriesNeverDecrease ==
    vcOp.op \in {"tick", "update", "merge"} =>
        \A r \in Clients : VCGet(VcNow, r) >= VCGet(vcOp.pre, r)

(***************************************************************************)
(* Properties of Document merge and of the delta round trip (SpecLww).     *)
(***************************************************************************)
DidA(op) == Len(docOp.a) >= 1 /\ docOp.a[1].op = op
DidB(op) == Len(docOp.b) >= 1 /\ docOp.b[1].op = op

\* C7: after merge_field(path, remote) on a document holding a field at path,
\* the stored field is the one of the two with the greater timestamp, and the
\* winner is the same when the two fields swap the roles of local and remote.
C7_MergeFieldGreaterWins ==
    /\ (DidA("merge_field") /\ docOp.a[1].path \in DOMAIN docOp.a[1].pre.fields) =>
          LET p      == docOp.a[1].path
              local  == docOp.a[1].pre.fields[p]
              remote == docY.fields[p]
              stored == repA.fields[p]
          IN /\ stored \in {local, remote}
             /\ CompareLww(stored.timestamp, local.timestamp) # "Less"
             /\ CompareLww(stored.timestamp, remote.timestamp) # "Less"
    /\ (DidA("merge_field") /\ DidB("merge_field")) =>
          repA.fields[docOp.a[1].path] = repB.fields[docOp.a[1].path]

\* C8: X.merge(Y) and Y.merge(X) leave the same fields and the same version.
C8_MergeCommutes ==
    (Len(docOp.a) = 1 /\ DidA("merge") /\ DidB("merge")) =>
        /\ repA.fields = repB.fields
        /\ repA.version = repB.version

\* C9: merging an equal copy of the document itself, or the same remote a
\* second time, changes no field and no version entry and returns 0.
C9_MergeIdempotent ==
    /\ (DidA("merge") /\ docX = docY) =>
          /\ docOp.a[1].ret = 0
          /\ Len(docOp.a) = 1 => repA = docX
    /\ (DidA("merge") /\ Len(docOp.a) = 2) =>
          /\ docOp.a[2].ret = 0
          /\ repA = docOp.a[2].pre

\* The same remote merged twice, the first merge having replaced a field and
\* added another.
C9_Witness ==
    /\ DidA("merge") /\ Len(docOp.a) = 2
    /\ docOp.a[1].ret = 2
    /\ docX.fields # EmptyMap
    /\ docOp.a[1].pre.version # docOp.a[2].pre.version

\* new's field is at least as recent as old's on every path both hold
NewNotOlder(old, new) ==
    \A p \in (DOMAIN old.fields) \cap (DOMAIN new.fields) :
        CompareLww(new.fields[p].timestamp, old.fields[p].timestamp) # "Less"

\* C5: when every field of new is at least as recent as old's field
\* on the same path, applying compute_delta(old, new) to a copy of old gives
\* new: the same paths, the same field at each, the same version.
C5_RoundTrip ==
    (DidA("roundtrip") /\ docX.id = docY.id /\ NewNotOlder(docX, docY)) =>
        /\ repA.fields = docY.fields
        /\ repA.version = docY.version

(***************************************************************************)
(* Properties of the two delta implementations (SpecDelta).                *)
(***************************************************************************)
\* The last recorded call, when it applied a delta.
LastOp == docOp.a[Len(docOp.a)]
Applied1 == Len(docOp.a) >= 1 /\ LastOp.op \in {"apply_delta", "apply_to"}
\* The applied delta's document id, version and non-delete changes.
AppliedId ==
    IF LastOp.op = "apply_delta" THEN ComputeDelta(docX, docY).document_id
    ELSE DocumentDeltaCompute(docX, docY).value.document_id
AppliedVersion ==
    IF LastOp.op = "apply_delta" THEN ComputeDelta(docX, docY).version
    ELSE DocumentDeltaCompute(docX, docY).value.new_version
AppliedFields ==
    IF LastOp.op = "apply_delta" THEN ComputeDelta(docX, docY).fields
    ELSE LET ch == DocumentDeltaCompute(docX, docY).value.changes
         IN [p \in {q \in DOMAIN ch : ~ch[q].is_delete} |-> ch[p].field]

C14_VersionIsPointwiseMax ==
    (Applied1 /\ LastOp.pre.id = AppliedId) =>
        \A r \in Clients :
            VCGet(repA.version, r) =
                Max(VCGet(LastOp.pre.version, r), VCGet(AppliedVersion, r))

\* C15: applying a delta resolves each change by per-field last-write-wins: a
\* change whose timestamp is less than or equal to the timestamp of the field
\* the document holds at that path leaves that field unchanged (the field is
\* replaced only when the path is absent or the change is strictly newer).
C15_ApplyIsPerFieldLww ==
    (Applied1 /\ LastOp.pre.id = AppliedId) =>
        \A p \in DOMAIN AppliedFields \cap DOMAIN LastOp.pre.fields :
            TsCmp(AppliedFields[p].timestamp, LastOp.pre.fields[p].timestamp) # "Greater"
                => /\ p \in DOMAIN repA.fields
                   /\ repA.fields[p] = LastOp.pre.fields[p]

\* C16: computing a delta between two documents whose ids differ fails with an
\* InvalidOperation error and produces no delta.
C16_ComputeRejectsOtherDocument ==
    (Len(docOp.a) = 1 /\ LastOp.op \in {"compute_delta", "compute"}
                      /\ docX.id # docY.id) =>
        LastOp.ret = Err("InvalidOperation")

\* C17: applying a delta to a document whose id differs from the delta's
\* document_id returns an InvalidOperation error as a value, without
\* panicking, and leaves the document's fields and version unchanged.
C17_ApplyRejectsOtherDocument ==
    (Applied1 /\ LastOp.pre.id # AppliedId) =>
        /\ LastOp.op = "apply_delta" => ~LastOp.ret
        /\ LastOp.op = "apply_to" => LastOp.ret = Err("InvalidOperation")
        /\ repA.fields = LastOp.pre.fields
        /\ repA.version = LastOp.pre.version

(***************************************************************************)
(* Properties of the OR-Set (SpecORSet).                                   *)
(***************************************************************************)
\* Replica b has removed e after observing an add of it, and replica a has
\* added e concurrently, under a tag that no removal has covered.
ConcurrentAddRemove(a, b, e) ==
    \E add \in orOp.issued :
        /\ add.element = e /\ add.by = a /\ add.racing
        /\ add.tag \notin orOp.removedBy[b]
        /\ add.tag \notin orOp.removedBy[a]

BothMerged == orOp.seen = {<<"A", "B">>, <<"B", "A">>}

\* C3: add wins -- when replica b removed e having observed an add of it while
\* replica a concurrently added e under a tag b had not seen, then once a has
\* merged b and b has merged a, contains(e) is true on both replicas.
C3_AddWins ==
    \A a \in Replicas, e \in Elements :
        (ConcurrentAddRemove(a, Peer(a), e) /\ BothMerged) =>
            /\ ORSetContains(sets[a], e)
            /\ ORSetContains(sets[Peer(a)], e)

\* A concurrent add on A and remove on B, both merges done, B holding the
\* removed tag and e contained on both.
C3_Witness ==
    /\ ConcurrentAddRemove("A", "B", "apple") /\ BothMerged
    /\ sets["B"].removed_tags # {}
    /\ ORSetContains(sets["A"], "apple") /\ ORSetContains(sets["B"], "apple")

\* Replica w has called add(e), remove(e) and add(e) again: an earlier tag of
\* e issued by w is covered by w's own removal and a later one is not.
AddRemoveAdd(w, e) ==
    \E first \in orOp.issued, again \in orOp.issued :
        /\ first.element = e /\ first.by = w
        /\ again.element = e /\ again.by = w
        /\ first.tag.sequence < again.tag.sequence
        /\ first.tag \in orOp.removedBy[w]
        /\ again.tag \notin orOp.removedBy[w]

\* Replica v has never held a tag of e, neither added nor merged.
NeverSeen(v, e) == e \notin DOMAIN sets[v].elements

\* C20: on one replica, after add(e), remove(e), add(e), contains(e) is true,
\* and it stays true after merging with a replica that has never seen e.
C20_AddAfterRemove ==
    \A w \in Replicas, e \in Elements :
        (AddRemoveAdd(w, e) /\ NeverSeen(Peer(w), e)) =>
            ORSetContains(sets[w], e)

\* Replica A has added, removed and added "apple" again and has merged
\* replica B, which holds "banana" alone.
C20_Witness ==
    /\ AddRemoveAdd("A", "apple") /\ NeverSeen("B", "apple")
    /\ <<"A", "B">> \in orOp.seen
    /\ ORSetContains(sets["B"], "banana")
    /\ ORSetContains(sets["A"], "banana")
    /\ ORSetContains(sets["A"], "apple")

\* The tags the add calls of replica w have issued.
IssuedBy(w) == {x.tag : x \in {y \in orOp.issued : y.by = w}}

\* C21: over any sequence of add, remove and merge on replicas with distinct
\* replica ids, no two adds issue the same tag, whatever the wall clock reads:
\* the tags a replica has issued carry its replica id and the sequence numbers
\* 1, 2, ... up to its sequence counter, one tag for each, so the counter has
\* grown by one on every add and has never been reset or lowered.
C21_TagsAreUnique ==
    /\ \A w \in Replicas :
          /\ \A t \in IssuedBy(w) : t.replica_id = ReplicaId[w]
          /\ {t.sequence : t \in IssuedBy(w)} = 1..sets[w].sequence
          /\ Cardinality(IssuedBy(w)) = sets[w].sequence
    /\ IssuedBy("A") \cap IssuedBy("B") = {}

\* Replica A has issued two tags, the second at an earlier wall-clock reading
\* than the first, replica B one at the reading of A's second, and A has
\* removed and has merged B.
C21_Witness ==
    /\ \E t1 \in IssuedBy("A"), t2 \in IssuedBy("A"), t3 \in IssuedBy("B") :
          /\ t1.sequence < t2.sequence /\ t1.timestamp > t2.timestamp
          /\ t3.timestamp = t2.timestamp /\ t3.sequence = t2.sequence
    /\ orOp.removedBy["A"] # {}
    /\ <<"A", "B">> \in orOp.seen

\* C22: merge is commutative on the observable state -- once A has merged B
\* and B has merged A, both hold the same tags for every element and the same
\* removed tags, and therefore contain the same elements.
C22_MergeCommutes ==
    BothMerged =>
        /\ \A e \in Elements : ORSetTags(sets["A"], e) = ORSetTags(sets["B"], e)
        /\ sets["A"].removed_tags = sets["B"].removed_tags
        /\ \A e \in Elements :
              ORSetContains(sets["A"], e) <=> ORSetContains(sets["B"], e)

\* Both replicas have merged each other after each had issued a tag and
\* removed one; one element is contained, the other is held but removed.
C22_Witness ==
    /\ BothMerged
    /\ IssuedBy("A") # {} /\ IssuedBy("B") # {}
    /\ orOp.removedBy["A"] # {} /\ orOp.removedBy["B"] # {}
    /\ orOp.removedBy["A"] # orOp.removedBy["B"]
    /\ \E e \in Elements : ORSetContains(sets["A"], e)
    /\ \E e \in Elements : ORSetTags(sets["A"], e) # {} /\ ~ORSetContains(sets["A"], e)

(***************************************************************************)
(* Properties of FractionalIndex (SpecFI).                                 *)
(***************************************************************************)
\* C4: for every pair of keys left < right, between(left, right) returns a
\* key m with left < m < right.
C4_BetweenIsBetween ==
    (fiOut.status # "none" /\ KeyLess(fiLeft, fiRight)) =>
        /\ fiOut.status = "ok"
        /\ KeyLess(fiLeft, fiOut.key)
        /\ KeyLess(fiOut.key, fiRight)

\* C18: between(left, right) with left equal to or greater than right fails
\* with an InvalidOperation error returned as a value, without panicking.
C18_BetweenRejectsInvertedBounds ==
    (fiOut.status # "none" /\ ~KeyLess(fiLeft, fiRight)) =>
        fiOut.status = "InvalidOperation"

\* C19: starting from first() and after(first()), with every m = between(first(),
\* right) taken as the next right, each of up to 100 calls succeeds, each m is
\* strictly greater than first() and strictly less than the previous right,
\* and all the keys obtained are strictly ordered.
C19_InsertBetweenManyTimes ==
    /\ fiOut.status \in {"none", "ok"}
    /\ fiOut.status = "ok" =>
           /\ fiLeft = FIFirst
           /\ KeyLess(FIFirst, fiOut.key)
           /\ KeyLess(fiOut.key, fiRight)
    /\ \A i \in 1..(Len(fiOut.positions) - 1) :
           KeyLess(fiOut.positions[i], fiOut.positions[i + 1])

\* The last key has been inserted: first(), after(first()) and one key for
\* every round, first() still the smallest.
C19_Witness ==
    /\ fiOut.narrowed = MaxInserts
    /\ Len(fiOut.positions) = MaxInserts + 2
    /\ fiOut.positions[1] = FIFirst
    /\ fiOut.positions[MaxInserts + 2] = After(FIFirst).key

(***************************************************************************)
(* Properties of Text (SpecText).                                          *)
(***************************************************************************)
\* C1: once every replica has merged the other's state, whatever inserts and
\* deletes came before, all replicas render the same string.
C1_TextConverges ==
    textOp.seen = {<<"A", "B">>, <<"B", "A">>} =>
        Render(texts["A"]) = Render(texts["B"])

\* C23: on a single replica whose rendered text is T, insert(p, s) with
\* 0 <= p <= len(T) makes the rendered text T[0..p] followed by s followed by
\* T[p..].
C23_InsertAtPosition ==
    textOp.op = "insert" =>
        Render(texts["A"]) =
            SubSeq(textOp.pre, 1, textOp.position) \o textOp.chars
                \o SubSeq(textOp.pre, textOp.position + 1, Len(textOp.pre))

\* C24: on a single replica whose rendered text is T, delete(p, n) with
\* p + n <= len(T) makes the rendered text T without the characters at the
\* positions p .. p+n-1, and the length drops by n.
C24_DeleteRange ==
    textOp.op = "delete" =>
        /\ Render(texts["A"]) =
               SubSeq(textOp.pre, 1, textOp.position)
                   \o SubSeq(textOp.pre, textOp.position + textOp.length + 1,
                             Len(textOp.pre))
        /\ TextLen(texts["A"]) = Len(textOp.pre) - textOp.length

\* character c stands before character d in the rendering of text
RendersBefore(text, c, d) ==
    \E i, j \in 1..TextLen(text) :
        i < j /\ Render(text)[i] = c /\ Render(text)[j] = d

\* C25: when two replicas have concurrently inserted items with the same left
\* origin and have then merged each other, both replicas place the item with
\* the smaller ItemId first: all that replica 1 inserted stands before all
\* that replica 2 inserted.
C25_SmallerIdFirst ==
    (/\ textOp.seen = {<<"A", "B">>, <<"B", "A">>}
     /\ textOp.left["A"] = textOp.left["B"]) =>
        \A w \in Replicas :
            \A i \in 1..Len(textOp.chars["A"]), j \in 1..Len(textOp.chars["B"]) :
                RendersBefore(texts[w], textOp.chars["A"][i], textOp.chars["B"][j])

\* C29: in Text::merge the order in which the newly copied remote items are
\* integrated does not affect the result: every permutation of the queued
\* items gives the same final sequence of item ids.
C29_IntegrationOrderIrrelevant ==
    ("orders" \in DOMAIN textOp) => Cardinality(textOp.orders) = 1

\* C30: block coalescing preserves observable behaviour: the same sequence
\* of insert, delete and merge operations run with merge_blocks and without
\* it yields the same rendered text on every replica after every operation.
C30_CoalescingUnobservable ==
    ("plain" \in DOMAIN textOp) =>
        \A w \in Replicas : Render(texts[w]) = Render(textOp.plain[w])

\* C31: after any sequence of insert, delete and merge operations on a Text
\* replica, sequence contains every id that is a key of items exactly once
\* and no id that is not a key of items.
C31_SequenceListsItems ==
    \A w \in Replicas :
        /\ {texts[w].sequence[i] : i \in 1..Len(texts[w].sequence)} = DOMAIN texts[w].items
        /\ \A i, j \in 1..Len(texts[w].sequence) :
              i # j => texts[w].sequence[i] # texts[w].sequence[j]

\* Both replicas have merged each other; one holds a fused block, a tombstone
\* and an item of the peer.
C31_Witness ==
    /\ textOp.seen = {<<"A", "B">>, <<"B", "A">>}
    /\ \E w \in Replicas :
          /\ Len(texts[w].sequence) >= 3
          /\ \E id \in DOMAIN texts[w].items : Len(texts[w].items[id].content) = 2
          /\ \E id \in DOMAIN texts[w].items : texts[w].items[id].deleted
          /\ \E id \in DOMAIN texts[w].items : id[1] # texts[w].client_id

\* the characters of the tombstoned items of a text
DeletedChars(text) ==
    UNION {{text.items[id].content[k] : k \in 1..Len(text.items[id].content)} :
              id \in {x \in DOMAIN text.items : text.items[x].deleted}}

\* C32: tombstones are permanent: once an item is marked deleted on a replica,
\* no later insert, delete or merge on that replica makes its content visible
\* again, and delete never removes an entry from items or sequence.
C32_TombstonesPermanent ==
    [][\A w \in Replicas :
          /\ DeletedChars(texts[w]) \subseteq DeletedChars(texts'[w])
          /\ \A k \in 1..Len(Render(texts'[w])) :
                Render(texts'[w])[k] \notin DeletedChars(texts[w])
          /\ (\E position \in 0..MaxChars, length \in 1..MaxLen :
                  TxtDelete(w, position, length)) =>
                /\ DOMAIN texts'[w].items = DOMAIN texts[w].items
                /\ texts'[w].sequence = texts[w].sequence]_vars

\* the ids of all characters a text holds: a block of n characters with id
\* (r, c) holds the ids (r, c) .. (r, c + n - 1)
HeldIds(text) ==
    UNION {{<<id[1], id[2] + k>> : k \in 0..(Len(text.items[id].content) - 1)} :
              id \in DOMAIN text.items}

\* C33: every ItemId allocated by insert on a replica differs from every
\* ItemId the replica has allocated or received before: the counter grows by
\* one per inserted character, never decreases, and after a.merge(b) it is at
\* least the maximum of the counters of a and b.
C33_FreshItemIds ==
    [][\A w \in Replicas :
          /\ texts'[w].clock >= texts[w].clock
          /\ \A n \in 1..MaxLen :
                (\E position \in 0..MaxChars : TxtInsert(w, position, n)) =>
                   LET allocated == {<<texts[w].client_id, c>> :
                                        c \in texts[w].clock..(texts[w].clock + n - 1)}
                   IN /\ texts'[w].clock = texts[w].clock + n
                      /\ allocated \cap HeldIds(texts[w]) = {}
                      /\ HeldIds(texts'[w]) = HeldIds(texts[w]) \cup allocated
          /\ TxtMerge(w) =>
                /\ texts'[w].clock >= texts[w].clock
                /\ texts'[w].clock >= texts[Peer(w)].clock]_vars

\* A replica holds a character it allocated after a merge had raised its
\* counter: it never allocated the id with counter 0.
C33_Witness ==
    \E w \in Replicas :
        /\ \E id \in HeldIds(texts[w]) : id[1] = texts[w].client_id /\ id[2] > 0
        /\ <<texts[w].client_id, 0>> \notin HeldIds(texts[w])
        /\ \E id \in HeldIds(texts[w]) : id[1] # texts[w].client_id

Batched == Len(docOp.a) = 1 /\ docOp.a[1].op = "merge_deltas"

\* C34: merge_deltas(d1, d2) for two deltas of one document returns a delta
\* whose paths are the union of both deltas' paths, whose field at a path of
\* both is the one with the greater timestamp, and whose version is the
\* pointwise maximum of both versions.
C34_MergeDeltasUnion ==
    Batched =>
        LET m == docOp.a[1].ret
        IN /\ m.document_id = docX.id
           /\ DOMAIN m.fields = DOMAIN docX.fields \cup DOMAIN docY.fields
           /\ \A q \in DOMAIN docX.fields \ DOMAIN docY.fields : m.fields[q] = docX.fields[q]
           /\ \A q \in DOMAIN docY.fields \ DOMAIN docX.fields : m.fields[q] = docY.fields[q]
           /\ \A q \in DOMAIN docX.fields \cap DOMAIN docY.fields :
                 /\ IsNewerThan(docX.fields[q].timestamp, docY.fields[q].timestamp)
                       => m.fields[q] = docX.fields[q]
                 /\ IsNewerThan(docY.fields[q].timestamp, docX.fields[q].timestamp)
                       => m.fields[q] = docY.fields[q]
                 /\ m.fields[q] \in {docX.fields[q], docY.fields[q]}
           /\ \A c \in Clients :
                 VCGet(m.version, c) = Max(VCGet(docX.version, c), VCGet(docY.version, c))

\* Two deltas with a path of their own each, a shared path where the second
\* delta is newer by client id alone, and versions that differ.
C34_Witness ==
    /\ Batched
    /\ "title" \in DOMAIN docX.fields \cap DOMAIN docY.fields
    /\ docX.fields["title"].timestamp.clock = docY.fields["title"].timestamp.clock
    /\ ClientLess(docX.fields["title"].timestamp.client_id,
                  docY.fields["title"].timestamp.client_id)
    /\ docX.fields["title"].value # docY.fields["title"].value
    /\ docX.version # docY.version
    /\ DOMAIN docX.version # {} /\ DOMAIN docY.version # {}

\* C35: batching is transparent: applying merge_deltas(d1, d2) to a document
\* yields the same fields and version as applying d1 and then d2, and as
\* applying d2 and then d1.
C35_BatchingTransparent ==
    (Batched /\ Len(docOp.b) = 2) =>
        /\ repA.fields = repB.fields
        /\ repA.version = repB.version

BothWays ==
    /\ Len(docOp.a) = 1 /\ docOp.a[1].op = "apply_delta" /\ docOp.a[1].pre = docX
    /\ Len(docOp.b) = 1 /\ docOp.b[1].op = "merge" /\ docOp.b[1].pre = docX

\* C37: delta application and document merge resolve conflicts identically:
\* for a local document L and a remote document R with the same id,
\* apply_delta(L, delta carrying R's fields and version) leaves the same
\* fields and version as L.merge(R), also when timestamps are equal.
C37_ApplyDeltaIsMerge ==
    BothWays =>
        /\ ~docOp.a[1].ret
        /\ repA.fields = repB.fields
        /\ repA.version = repB.version

\* R and L hold title with equal timestamps and different values, R holds a
\* newer body, and the versions differ.
C37_Witness ==
    /\ BothWays
    /\ Paths \subseteq DOMAIN docX.fields \cap DOMAIN docY.fields
    /\ docX.fields["title"].timestamp = docY.fields["title"].timestamp
    /\ docX.fields["title"].value # docY.fields["title"].value
    /\ IsNewerThan(docY.fields["body"].timestamp, docX.fields["body"].timestamp)
    /\ repA.version # docX.version

MonoStep == Len(docOp.a) = 1 /\ docOp.a[1].op \in {"merge_field", "merge", "apply_delta"}

\* C38: along any sequence of merge_field, merge and apply_delta operations
\* on a document, the timestamp stored at a path never decreases in the total
\* order and a path that holds a field never becomes empty; an incoming field
\* whose timestamp is not strictly greater is dropped.
C38_TimestampsNeverDecrease ==
    MonoStep =>
        LET pre == docOp.a[1].pre.fields
            incoming == docOp.a[1].incoming
        IN /\ \A q \in DOMAIN pre :
                 /\ q \in DOMAIN repA.fields
                 /\ CompareLww(repA.fields[q].timestamp, pre[q].timestamp) # "Less"
           /\ \A q \in DOMAIN pre \cap DOMAIN incoming :
                 ~IsNewerThan(incoming[q].timestamp, pre[q].timestamp)
                     => repA.fields[q] = pre[q]

\* A held both paths; what came in was older at body and had the same
\* timestamp and another value at title.
C38_Witness ==
    /\ MonoStep
    /\ docOp.a[1].op = "apply_delta"
    /\ Paths \subseteq DOMAIN docOp.a[1].pre.fields \cap DOMAIN docOp.a[1].incoming
    /\ IsNewerThan(docOp.a[1].pre.fields["body"].timestamp,
                   docOp.a[1].incoming["body"].timestamp)
    /\ docOp.a[1].pre.fields["title"].timestamp = docOp.a[1].incoming["title"].timestamp
    /\ docOp.a[1].pre.fields["title"].value # docOp.a[1].incoming["title"].value

\* the paths old holds and new does not
RemovedPaths == DOMAIN docX.fields \ DOMAIN docY.fields

\* C36: a computed delta records every path that is present in old but absent
\* from new as a tombstone change carrying the old field's timestamp, so that
\* applying the delta to a copy of old removes those paths.
C36_DeltaRecordsTombstones ==
    (Len(docOp.a) = 1 /\ docX.id = docY.id) =>
        /\ docOp.a[1].op = "compute" =>
              \A q \in RemovedPaths :
                  /\ q \in DOMAIN docOp.a[1].ret.value.changes
                  /\ docOp.a[1].ret.value.changes[q].is_delete
                  /\ docOp.a[1].ret.value.changes[q].field.timestamp = docX.fields[q].timestamp
        /\ docOp.a[1].op = "compute_delta" =>
              \A q \in RemovedPaths : q \in DOMAIN docOp.a[1].ret.value.fields
        /\ (docOp.a[1].op \in {"apply_delta", "apply_to"} /\ docOp.a[1].pre = docX) =>
              \A q \in RemovedPaths : q \notin DOMAIN repA.fields

(***************************************************************************)
(* Claims about set_field.                                                  *)
(***************************************************************************)
SetOnA == docOp.b = <<>> /\ Len(docOp.a) >= 1 /\ docOp.a[Len(docOp.a)].op = "set_field"

BothApplied == Len(docOp.a) >= 1 /\ Len(docOp.b) = Len(docOp.a) /\ docOp.a[1].op = "set_field"

\* C27: the same list of set_field operations applied to two empty documents
\* in different orders yields the same value at every field path; after two
\* writes to one path with equal clocks the stored value is the one written
\* by the greater client id.
C27_OrderIndependent ==
    /\ BothApplied =>
          /\ DOMAIN repA.fields = DOMAIN repB.fields
          /\ \A q \in DOMAIN repA.fields : repA.fields[q].value = repB.fields[q].value
    /\ (/\ docOp.b = <<>> /\ Len(docOp.a) = 2 /\ docOp.a[1].op = "set_field"
        /\ docOp.a[1].path = docOp.a[2].path
        /\ docOp.a[1].clock = docOp.a[2].clock
        /\ docOp.a[1].client_id # docOp.a[2].client_id) =>
          LET w == IF ClientLess(docOp.a[1].client_id, docOp.a[2].client_id) THEN 2 ELSE 1
          IN repA.fields[docOp.a[1].path].value = docOp.a[w].value

\* C39: eventual convergence: when local writes eventually stop and every
\* replica keeps merging the state of every other replica, eventually all
\* replicas hold identical fields and versions and stay identical.
C39_EventuallyConverge ==
    <>[](repA.fields = repB.fields /\ repA.version = repB.version)

\* C40: OR-Set state only grows: no add, remove, clear or merge drops a tag
\* from an element's tag set or from removed_tags, so an element whose every
\* known tag is removed stays absent on a replica until that replica performs
\* or merges an add with a new tag, and a merge never makes a removed tag
\* count as present again.
C40_StateOnlyGrows ==
    [][\A w \in Replicas :
          /\ sets[w].removed_tags \subseteq sets'[w].removed_tags
          /\ \A e \in Elements :
                /\ ORSetTags(sets[w], e) \subseteq ORSetTags(sets'[w], e)
                /\ (~ORSetContains(sets[w], e) /\ ORSetContains(sets'[w], e)) =>
                      \E tag \in ORSetTags(sets'[w], e) :
                          /\ tag \notin ORSetTags(sets[w], e)
                          /\ tag \notin sets'[w].removed_tags]_vars

\* A replica that has merged its peer holds an element with a tag of its own
\* and a tag of the peer, all of them removed.
C40_Witness ==
    \E w \in Replicas, e \in Elements :
        /\ <<w, Peer(w)>> \in orOp.seen
        /\ ~ORSetContains(sets[w], e)
        /\ \E x, y \in orOp.issued :
              /\ x.by = w /\ y.by = Peer(w)
              /\ {x.tag, y.tag} \subseteq ORSetTags(sets[w], e)

(***************************************************************************)
(* Claims about Timestamp.                                                  *)
(***************************************************************************)
Compared == Len(docOp.a) = 1 /\ docOp.a[1].op = "compare_lww"

\* C28: compare_lww is a total order: of "a is newer than b", "b is newer than
\* a" and "a and b have the same clock and replica id" exactly one holds; the
\* relation is transitive; it orders by clock numerically and then by replica
\* id lexicographically, and it agrees with the derived ordering used by
\* apply_delta and merge_deltas.
C28_CompareLwwTotalOrder ==
    Compared =>
        LET t == docOp.stamps
            r == docOp.a[1]
            Same(i, j) == t[i].clock = t[j].clock /\ t[i].client_id = t[j].client_id
            One(x, y, z) == (x /\ ~y /\ ~z) \/ (~x /\ y /\ ~z) \/ (~x /\ ~y /\ z)
        IN /\ \A i, j \in 1..3 :
                /\ One(r.newer[i][j], r.newer[j][i], Same(i, j))
                /\ r.ret[i][j] = "Equal" <=> Same(i, j)
                /\ r.ret[i][j] = "Greater" <=> r.newer[i][j]
                /\ r.ret[i][j] = "Less" <=> r.ret[j][i] = "Greater"
                /\ r.ret[i][j] = "Less" <=>
                       \/ t[i].clock < t[j].clock
                       \/ t[i].clock = t[j].clock
                          /\ ClientRank[t[i].client_id] < ClientRank[t[j].client_id]
                /\ r.ret[i][j] = r.cmp[i][j]
           /\ \A i, j, k \in 1..3 :
                (r.newer[i][j] /\ r.newer[j][k]) => r.newer[i][k]

\* Three different timestamps in a chain: two with one clock and different
\* replica ids, and one with a greater clock and the smallest replica id.
C28_Witness ==
    /\ Compared
    /\ docOp.a[1].newer[1][2] /\ docOp.a[1].newer[2][3]
    /\ docOp.stamps[1].clock > docOp.stamps[2].clock
    /\ ClientLess(docOp.stamps[1].client_id, docOp.stamps[3].client_id)
    /\ docOp.stamps[2].clock = docOp.stamps[3].clock
    /\ docOp.stamps[2].client_id = "c2" /\ docOp.stamps[3].client_id = "c10"

====
